---- MODULE Spec2Model ----
(***************************************************************************)
(* Verification model of the task-based calculation engine of plumed2:     *)
(* the PlumedMain step (prepareDependencies .. update), the construction  *)
(* of the action graph by ActionWithArguments::requestArguments, the      *)
(* derivative-index bookkeeping of the tasks, the ReferenceValuePack       *)
(* dynamic lists and the task-list filter of FindContour.                  *)
(*                                                                         *)
(* The module holds several specifications, one per part of the program;  *)
(* each leaves the variables of the other parts unchanged.                *)
(***************************************************************************)
EXTENDS Integers, Sequences, FiniteSets, TLC

(***************************************************************************)
(* Generic helpers                                                         *)
(***************************************************************************)
Range(s) == { s[i] : i \in 1..Len(s) }

RECURSIVE SumSeq(_)
SumSeq(s) == IF s = << >> THEN 0 ELSE s[1] + SumSeq(Tail(s))

RECURSIVE Reverse(_)
Reverse(s) == IF s = << >> THEN << >> ELSE Append(Reverse(Tail(s)), s[1])

RECURSIVE SelectIdx(_, _, _)
\* the indices i of 1..n, in increasing order, for which keep[i] holds
SelectIdx(keep, i, n) ==
  IF i > n THEN << >>
  ELSE IF keep[i] THEN <<i>> \o SelectIdx(keep, i + 1, n)
       ELSE SelectIdx(keep, i + 1, n)

\* F applied to the value of v
With(v, F(_)) == CHOOSE r \in { F(y) : y \in {v} } : TRUE

NoDuplicates(s) == \A i, j \in 1..Len(s) : i # j => s[i] # s[j]

(***************************************************************************)
(* Bounds of the model                                                     *)
(***************************************************************************)
\* grid points of a one-dimensional grid
MaxNbin == 3
\* grid points along the first dimension of a two-dimensional grid
MaxNbin2 == 2
\* actions in the action set when steps are run
MaxActions == 3
\* actions in the action set when only the input is read
MaxGraphActions == 4

VARIABLES
  \* PlumedMain and the actions it owns
  actionSet,     \* the actions in input order; an action's label is its position
  active,        \* PlumedMain::active
  isActive,      \* Action::active, by label
  inputForces,   \* by label: the forces held by the value of the action
  wasset,        \* ActionForInterface::wasset, by label
  stopFlag,      \* "NULL", or the value of the integer it points to
  failure,       \* "none", or what ended the run
  lastCmd,       \* the last command PlumedMain::cmd was given
  trace,         \* what the last command did, in order
  \* FindContour: the grid argument, the isovalue and the current task list
  nbin,          \* number of grid points along each dimension
  pbc,           \* periodicity of each dimension
  grid,          \* grid values, by flat grid index 0..npoints-1
  contour,       \* the isovalue (CONTOUR keyword)
  taskList,      \* current task list of output 0
  \* One task of an atomistic action and the MultiValue it writes
  natoms,        \* ActionAtomistic::getNumberOfAtoms()
  task,          \* the task that ran last and its inputs
  derivs,        \* the derivative indices that task registered or wrote
  \* A ReferenceValuePack and the MultiValue it refers to
  numberOfArgs,  \* ReferenceValuePack::numberOfArgs
  atom_indices,  \* ReferenceValuePack::atom_indices
  packAtoms,     \* atoms of the action; myvals has numberOfArgs+3*packAtoms+9 derivatives
  myvals,        \* [active, complete]: active-index list and updateComplete()
  packLast,      \* what the last operation on the pack did
  \* An action that filters its task list, and one pass of runAllTasks
  taskKind,      \* the class of the action
  s_cutoff2,     \* SecondaryStructureRMSD::s_cutoff2
  modulo2,       \* by task: squared distance between the two marker atoms
  clustr,        \* ClusterWeights::clustr
  clusterOf,     \* by task: the value of the argument of ClusterWeights
  tflags,        \* by task: the flags buildCurrentTaskList is handed
  actionsThatSelectTasks, \* the labels of the actions that select tasks
  lastRun,       \* the tasks runAllTasks performed and what they wrote
  builds,        \* how often the task list was built since it was reset
  firstBuild,    \* the active tasks after the first of these builds
  \* The tasks of one action in one pass of the loop over the tasks
  loopAction,    \* the class of the action
  storedData,    \* what the tasks read: positions, stored values, grid values
  pc,            \* by task: how far performTask has come
  locals,        \* by task: the local variables of performTask
  records,       \* by task: the value and the derivative indices in its MultiValue
  \* The constructor that ran last
  ctor,          \* the class, the input it was given and how it ended
  \* A secondary structure action that is set up and then performs tasks
  ss,            \* its segments, its reference and what the last task read
  \* The numerical routine that ran last
  num,           \* the routine, what it was given and what it returned
  \* Two instances built from the same input, and the checkpoint between them
  ckpt,          \* the input, the values of both instances and the stream
  \* The commands PlumedMain::cmd is given, from the construction of PlumedMain on
  api,           \* initialized, the last command and how it ended
  \* One action with tasks and the methods PlumedMain calls on it in a step
  stepRun,       \* its class, its flags and the methods that ran its tasks in this step
  \* the forward passes of the steps
  fwd,           \* the first-step flags of the inputs and the passes made
  \* the bias and the work of PlumedMain
  energy,        \* the members bias and work
  \* the interpretation of a data label by a shortcut
  dataLabel,     \* the position of interpretDataLabel in its loops
  \* the expansion of the keywords of a multicolvar shortcut
  expansion      \* the input lines expandFunctions has generated

contourVars == <<nbin, pbc, grid, contour, taskList>>

atomVars == <<natoms, task, derivs>>

packVars == <<numberOfArgs, atom_indices, packAtoms, myvals, packLast>>

mainVars ==
  <<actionSet, active, isActive, inputForces, wasset, stopFlag, failure, lastCmd, trace>>

filterVars ==
  <<taskKind, s_cutoff2, modulo2, clustr, clusterOf, tflags, actionsThatSelectTasks,
    lastRun, builds, firstBuild>>

loopVars == <<loopAction, storedData, pc, locals, records>>

ctorVars == <<ctor>>

ssVars == <<ss>>

numVars == <<num>>

ckptVars == <<ckpt>>

apiVars == <<api>>

runVars == <<stepRun>>

fwdVars == <<fwd>>

energyVars == <<energy>>

labelVars == <<dataLabel>>

expandVars == <<expansion>>

vars == <<mainVars, contourVars, atomVars, packVars, filterVars, loopVars, ctorVars, ssVars, numVars, ckptVars, apiVars, runVars, fwdVars, energyVars, labelVars, expandVars>>

\* No secondary structure action is read, in the specifications of the other
\* parts
IdleSecondaryStructure == ss = [phase |-> "none"]

\* No numerical routine has run, in the specifications of the other parts
IdleNumerics == num = [routine |-> "none"]

\* No checkpoint is written, in the specifications of the other parts
IdleCheckpoint == ckpt = [phase |-> "none"]

\* No command is followed, in the specifications of the other parts
IdleCmd == api = [phase |-> "none"]

\* No such action is followed, in the specifications of the other parts
IdleRun == stepRun = [phase |-> "none"]

\* No forward pass is modelled, in the specifications of the other parts
IdleForward == fwd = [phase |-> "none"]

\* The bias and the work are not followed, in the specifications of the other parts
IdleEnergy == energy = [phase |-> "none"]

\* No data label is interpreted, in the specifications of the other parts
IdleLabel == dataLabel = [phase |-> "none"]

\* No shortcut is expanded, in the specifications of the other parts
IdleExpansion == expansion = [phase |-> "none"]

\* No constructor has run, in the specifications of the other parts
IdleCtor == ctor = [class |-> "none"]

\* The state of the loop over the tasks in the specifications of the other parts
IdleLoop ==
  /\ loopAction = "none"
  /\ storedData = << >>
  /\ pc = << >>
  /\ locals = << >>
  /\ records = << >>

\* The state of the filtering action in the specifications of the other parts
IdleFilter ==
  /\ taskKind = "none"
  /\ s_cutoff2 = 0
  /\ modulo2 = << >>
  /\ clustr = 1
  /\ clusterOf = << >>
  /\ tflags = << >>
  /\ actionsThatSelectTasks = << >>
  /\ lastRun = [ran |-> FALSE, performed |-> {}, values |-> << >>, derivs |-> << >>]
  /\ builds = 0
  /\ firstBuild = {}

\* The state of the atomistic task in the specifications of the other parts
IdleAtoms ==
  /\ natoms = 1
  /\ task = [name |-> "none", skipped |-> FALSE, atoms |-> << >>]
  /\ derivs = {}

\* The state of the pack in the specifications of the other parts
IdlePack ==
  /\ numberOfArgs = 0
  /\ atom_indices = << >>
  /\ packAtoms = 1
  /\ myvals = [active |-> {}, complete |-> FALSE]
  /\ packLast = [op |-> "none", updated |-> FALSE, wasComplete |-> FALSE,
                 complete |-> FALSE, list |-> {}, touched |-> {}]

(***************************************************************************)
(* Actions and their values (core/ActionWithArguments.cpp and the classes  *)
(* it works on)                                                            *)
(*                                                                         *)
(* An action is a record.  kind is its class: "PUT" an ActionToPutData,    *)
(* "COLVAR" an atomistic action with a vector of tasks, "FUNCTION" an     *)
(* action with a value and arguments, "BIAS" a pilot with a value and      *)
(* arguments, "PRINT" a pilot with arguments and no value.  Every action   *)
(* with a value has one component, of rank 0 or 1.                         *)
(***************************************************************************)
Kinds == {"PUT", "COLVAR", "FUNCTION", "BIAS", "PRINT"}

isActionWithValue(a) == a.kind \in {"PUT", "COLVAR", "FUNCTION", "BIAS"}
isActionWithArguments(a) == a.kind \in {"FUNCTION", "BIAS", "PRINT"}
isActionPilot(a) == a.kind \in {"BIAS", "PRINT"}
isActionForInterface(a) == a.kind = "PUT"
isActionAtomistic(a) == a.kind = "COLVAR"

\* ActionForInterface::canChainFromThisAction returns false
canChainFromThisAction(a) == ~isActionForInterface(a)

\* the state of an action when the constructors of its base classes have run
NewAction(kind, rank, ntasks, constant, nderivatives) ==
  [kind |-> kind, rank |-> rank, ntasks |-> ntasks, constant |-> constant,
   store_data_for |-> {}, arguments |-> << >>, dependencies |-> {},
   done_over_stream |-> FALSE, distinct_arguments |-> << >>,
   arg_deriv_starts |-> << >>, nderivatives |-> nderivatives,
   action_to_do_before |-> 0, action_to_do_after |-> 0]

\* Value::getNumberOfValues of the value of action v
getNumberOfValues(W, v) == IF W[v].rank = 0 THEN 1 ELSE W[v].ntasks

\* Value::buildDataStore: the value of v is stored for the action label
buildDataStore(W, v, label) == [W EXCEPT ![v].store_data_for = @ \cup {label}]

RECURSIVE buildDataStores(_, _, _)
\* buildDataStore on each value of the sequence vs
buildDataStores(W, vs, label) ==
  IF vs = << >> THEN W
  ELSE buildDataStores(buildDataStore(W, vs[1], label), Tail(vs), label)

RECURSIVE ChainRoot(_, _, _)
ChainRoot(W, a, fuel) ==
  IF W[a].action_to_do_before = 0 \/ fuel = 0 THEN a
  ELSE ChainRoot(W, W[a].action_to_do_before, fuel - 1)

\* ActionWithValue::getActionThatCalculates: the head of the chain a is in
getActionThatCalculates(W, a) == ChainRoot(W, a, Len(W))

RECURSIVE DependencyClosure(_, _, _)
DependencyClosure(W, as, fuel) ==
  LET more == as \cup UNION { W[a].dependencies : a \in as }
  IN IF more = as \/ fuel = 0 THEN as ELSE DependencyClosure(W, more, fuel - 1)

\* Action::checkForDependency: a depends on b, directly or through others
checkForDependency(W, a, b) == b \in DependencyClosure(W, W[a].dependencies, Len(W))

RECURSIVE ScanAddDepend(_, _, _, _)
\* lines 2741-2744: the action set is scanned from its start, p being the
\* position reached and n the size of the set; the dependency is added when
\* the argument's action is met before the requesting action
ScanAddDepend(p, n, self, action) ==
  IF p > n THEN FALSE
  ELSE IF p = self THEN FALSE
  ELSE IF p = action THEN TRUE
  ELSE ScanAddDepend(p + 1, n, self, action)

\* Action::addDependency
addDependency(W, self, action) == [W EXCEPT ![self].dependencies = @ \cup {action}]

\* lines 2700-2708: whether the arguments are to be stored.  st holds the
\* locals storing and allconstant and the actions W
RECURSIVE StoringLoop(_, _, _, _, _)
StoringLoop(self, arg, allow_streams, i, st) ==
  IF i > Len(arg) THEN st
  ELSE IF ~allow_streams THEN [st EXCEPT !.storing = TRUE]
  ELSE StoringLoop(self, arg, allow_streams, i + 1,
         [W |-> IF st.W[arg[i]].constant THEN buildDataStore(st.W, arg[i], self) ELSE st.W,
          storing |-> st.storing,
          allconstant |-> st.allconstant /\ st.W[arg[i]].constant])

\* lines 2750-2757: the value is stored for an action that is among the
\* arguments
UsedByOtherArgument(W, arg, v) ==
  \E j \in W[v].store_data_for : \E k \in 1..Len(arg) : arg[k] = j

\* lines 2711-2769: the loop over the arguments.  n is the size of the action
\* set; st holds the actions W and the local f_actions
\* lines 2741-2745: the dependency on the action of argument v
RequestDependency(W, self, n, v) ==
  IF ScanAddDepend(1, n, self, v) THEN addDependency(W, self, v) ELSE W

\* lines 2747-2757 and 2769: the stores on argument v
RequestStore(W, self, arg, storing, v) ==
  IF storing \/ W[v].rank = 0 \/ UsedByOtherArgument(W, arg, v)
  THEN buildDataStore(W, v, self)
  ELSE W

\* lines 2761-2768: the action that calculates argument v joins f_actions
AddProducer(W, f_actions, v) ==
  With(getActionThatCalculates(W, v), LAMBDA myact :
    IF W[v].rank > 0 /\ ~W[v].constant /\ myact \notin Range(f_actions)
    THEN Append(f_actions, myact)
    ELSE f_actions)

RECURSIVE ArgumentLoop(_, _, _, _, _, _)
ArgumentLoop(self, n, arg, storing, i, st) ==
  IF i > Len(arg) THEN st
  ELSE ArgumentLoop(self, n, arg, storing, i + 1,
         With(RequestStore(RequestDependency(st.W, self, n, arg[i]), self, arg, storing, arg[i]),
              LAMBDA W3 : [W |-> W3, f_actions |-> AddProducer(W3, st.f_actions, arg[i])]))

\* lines 2773, 2807 and 2878: a store on every argument of rank above 0
StoreVectors(W, self, arg) ==
  buildDataStores(W, SelectSeq(arg, LAMBDA v : W[v].rank > 0), self)

RECURSIVE ScanForDependency(_, _, _, _)
\* lines 2796-2802: the action set is scanned from its start for the
\* dependency depend; the scan gives up at the first producing action f0
ScanForDependency(p, n, depend, f0) ==
  IF p > n THEN FALSE
  ELSE IF p = depend THEN TRUE
  ELSE IF p = f0 THEN FALSE
  ELSE ScanForDependency(p + 1, n, depend, f0)

RECURSIVE DependLoop(_, _, _, _, _)
\* lines 2794-2804: the loop over the dependencies of a later producing
\* action, in the order in which they were added
DependLoop(n, depend, j, f0, done) ==
  IF j > Len(depend) THEN done
  ELSE IF ~ScanForDependency(1, n, depend[j], f0) THEN FALSE
  ELSE DependLoop(n, depend, j + 1, f0, done)

\* Action::getDependencies, as a list
getDependencies(W, a) ==
  SelectIdx([p \in 1..Len(W) |-> p \in W[a].dependencies], 1, Len(W))

\* lines 2787-2789: the component of fi has the number of tasks of f0
TasksMatch(W, f0, fi) == W[fi].ntasks = W[f0].ntasks

\* line 2791 without the test for a dependency of the first producing
\* action on a later one
CircularLoopMutant(W, f0, fi) == FALSE

\* line 2791: chaining fi after f0 would make a loop
CircularLoop(W, f0, fi) == checkForDependency(W, f0, fi)

RECURSIVE ProducerLoop(_, _, _, _, _)
\* lines 2785-2805: the loop over the producing actions after the first
ProducerLoop(W, n, f_actions, i, done) ==
  IF i > Len(f_actions) THEN done
  ELSE
    IF ~done \/ ~TasksMatch(W, f_actions[1], f_actions[i])
       \/ CircularLoop(W, f_actions[1], f_actions[i])
    THEN FALSE
    ELSE ProducerLoop(W, n, f_actions, i + 1,
           DependLoop(n, getDependencies(W, f_actions[i]), 1, f_actions[1], TRUE))

\* lines 2778-2814: the value of done_over_stream
StreamDecision(W, n, storing, f_actions) ==
  IF storing THEN FALSE
  ELSE IF Len(f_actions) > 1 THEN ProducerLoop(W, n, f_actions, 2, TRUE)
  ELSE Len(f_actions) = 1

\* Action::getAllActionsRequired: the actions needed to calculate a, in input
\* order
getAllActionsRequired(W, a) ==
  With(DependencyClosure(W, {a}, Len(W)), LAMBDA need :
    SelectIdx([p \in 1..Len(W) |-> p \in need], 1, Len(W)))

\* ActionWithArguments::mustBeTreatedAsDistinctArguments
mustBeTreatedAsDistinctArguments(W, a) ==
  IF ~W[a].done_over_stream THEN TRUE
  ELSE IF Len(W[a].arguments) = 1
       THEN ~isActionAtomistic(W[getActionThatCalculates(W, a)])
       ELSE \E j \in 2..Len(W[a].arguments) :
              getAllActionsRequired(W, W[a].arguments[j])
                # getAllActionsRequired(W, W[a].arguments[1])

RECURSIVE getFirstNonStream(_, _, _)
\* ActionWithArguments::getFirstNonStream; fuel bounds the recursion by the
\* number of actions
getFirstNonStream(W, a, fuel) ==
  With(W[a].arguments[1], LAMBDA aa :
    IF fuel = 0 THEN a
    ELSE IF ~isActionWithArguments(W[aa]) \/ mustBeTreatedAsDistinctArguments(W, aa) THEN a
    ELSE IF \E i \in 2..Len(W[a].arguments) : W[a].arguments[i] # aa THEN a
    ELSE getFirstNonStream(W, aa, fuel - 1))

\* lines 2824-2832 and 2844-2846: the action the forces on argument v go to
ActionThatAppliesForces(W, v) ==
  IF ~isActionWithArguments(W[v]) \/ mustBeTreatedAsDistinctArguments(W, v) THEN v
  ELSE getFirstNonStream(W, v, Len(W))

\* lines 2819-2822 and 2848-2851
distinct_but_stored(W, self, v) == W[v].rank = 0 \/ self \in W[v].store_data_for

\* the position of the action myval in distinct_arguments, 0 if it is absent
RECURSIVE ArgNo(_, _, _)
ArgNo(da, myval, j) ==
  IF j > Len(da) THEN 0
  ELSE IF da[j].first = myval THEN j
  ELSE ArgNo(da, myval, j + 1)

RECURSIVE DerivStartsLoop(_, _, _, _)
\* lines 2842-2875: st holds distinct_arguments, arg_deriv_starts and nder
DerivStartsLoop(W, self, i, st) ==
  IF i > Len(W[self].arguments) THEN st
  ELSE DerivStartsLoop(W, self, i + 1,
    With(W[self].arguments[i], LAMBDA v :
    With(ActionThatAppliesForces(W, v), LAMBDA myval :
    With(ArgNo(st.distinct_arguments, myval, 1), LAMBDA argno :
      IF argno > 0
      THEN [st EXCEPT !.arg_deriv_starts = Append(@, st.arg_deriv_starts[argno])]
      ELSE IF ~W[v].constant /\ ~distinct_but_stored(W, self, v)
      THEN [distinct_arguments |-> Append(st.distinct_arguments, [first |-> myval, second |-> 0]),
            arg_deriv_starts |-> Append(st.arg_deriv_starts, st.nder),
            nder |-> st.nder + W[myval].nderivatives]
      ELSE [distinct_arguments |-> Append(st.distinct_arguments, [first |-> myval, second |-> 1]),
            arg_deriv_starts |-> Append(st.arg_deriv_starts, st.nder),
            nder |-> st.nder + getNumberOfValues(W, v)]))))

\* lines 2816-2876: distinct_arguments and arg_deriv_starts of an action that
\* is computed over the stream
SetupDistinctArguments(W, self) ==
  With(W[self].arguments[1], LAMBDA v :
  With(distinct_but_stored(W, self, v), LAMBDA stored :
  With([first |-> ActionThatAppliesForces(W, v), second |-> IF stored THEN 1 ELSE 0],
       LAMBDA first :
  With(IF ~W[v].constant /\ ~stored THEN W[first.first].nderivatives
       ELSE getNumberOfValues(W, v), LAMBDA nder :
  With(IF Len(W[self].arguments) = 1
       THEN [distinct_arguments |-> <<first>>, arg_deriv_starts |-> <<0, nder>>,
             nder |-> nder]
       ELSE DerivStartsLoop(W, self, 2,
              [distinct_arguments |-> <<first>>, arg_deriv_starts |-> <<0>>,
               nder |-> nder]), LAMBDA st :
    [W EXCEPT ![self].distinct_arguments = st.distinct_arguments,
              ![self].arg_deriv_starts = st.arg_deriv_starts])))))

\* ActionWithArguments::requestArguments, with argstart 0.  W holds the
\* actions of the action set and, when the requesting action self is being
\* constructed, that action after them; n is the size of the action set.
requestArguments(W, self, n, arg, allow_streams) ==
  IF arg = << >>
  THEN [W EXCEPT ![self].arguments = arg, ![self].dependencies = {}]
  ELSE
    With(StoringLoop(self, arg, allow_streams, 1,
           [W |-> [W EXCEPT ![self].arguments = arg, ![self].dependencies = {},
                            ![self].distinct_arguments = << >>,
                            ![self].done_over_stream = FALSE],
            storing |-> FALSE, allconstant |-> TRUE]), LAMBDA sl :
    With(sl.storing \/ sl.allconstant, LAMBDA storing :
    With(ArgumentLoop(self, n, arg, storing, 1, [W |-> sl.W, f_actions |-> << >>]),
         LAMBDA al :
      IF ~isActionWithValue(W[self])
      THEN (IF W[self].arguments = << >> THEN StoreVectors(al.W, self, arg) ELSE al.W)
      ELSE
        With(StreamDecision(al.W, n, storing, al.f_actions), LAMBDA done :
        With([al.W EXCEPT ![self].done_over_stream = done], LAMBDA W2 :
          IF done THEN SetupDistinctArguments(W2, self)
          ELSE StoreVectors(W2, self, arg))))))

(***************************************************************************)
(* Chains (ActionWithArguments::setupActionInChain) and the constructor of *)
(* FunctionOfVector                                                        *)
(***************************************************************************)
RECURSIVE ChainTail(_, _, _)
ChainTail(W, a, fuel) ==
  IF W[a].action_to_do_after = 0 \/ fuel = 0 THEN a
  ELSE ChainTail(W, W[a].action_to_do_after, fuel - 1)

RECURSIVE ChainFrom(_, _, _)
\* the labels of the chain from a on
ChainFrom(W, a, fuel) ==
  IF a = 0 \/ fuel = 0 THEN << >>
  ELSE <<a>> \o ChainFrom(W, W[a].action_to_do_after, fuel - 1)

\* ActionWithValue::getAllActionLabelsInChain of the head of the chain of a
getAllActionLabelsInChain(W, a) == ChainFrom(W, getActionThatCalculates(W, a), Len(W))

\* ActionWithValue::addActionToChain: act is put at the end of the chain of h
\* unless it is in the chain already; it cannot be added when one of the
\* actions alabels is neither in the chain nor stored
addActionToChain(W, h, alabels, act) ==
  With(ChainTail(W, h, Len(W)), LAMBDA tail :
  With(Range(getAllActionLabelsInChain(W, tail)), LAMBDA mylabels :
    IF act \in mylabels THEN [W |-> W, ok |-> TRUE]
    ELSE IF \E l \in Range(alabels) : l \notin mylabels /\ W[l].store_data_for = {}
    THEN [W |-> W, ok |-> FALSE]
    ELSE [W |-> [W EXCEPT ![tail].action_to_do_after = act,
                          ![act].action_to_do_before = tail],
          ok |-> TRUE]))

\* lines 2899-2902
storing_for_this(W, self, v) ==
  W[v].store_data_for # {} /\ (W[v].rank = 0 \/ self \in W[v].store_data_for)

\* line 2894 without the test that leaves constant arguments out
ProducerForChainMutant(W, v) == TRUE

\* line 2894: the action that calculates argument v is a candidate for the
\* chain unless the argument is constant
ProducerForChain(W, v) == ~W[v].constant

RECURSIVE ChainProducers(_, _, _, _)
\* lines 2885-2906: the local f_actions of setupActionInChain
ChainProducers(W, self, i, f_actions) ==
  IF i > Len(W[self].arguments) THEN f_actions
  ELSE ChainProducers(W, self, i + 1,
    With(W[self].arguments[i], LAMBDA v :
    With(getActionThatCalculates(W, v), LAMBDA myact :
      IF ProducerForChain(W, v) /\ myact \notin Range(f_actions)
         /\ (f_actions = << >> \/ ~storing_for_this(W, self, v))
      THEN Append(f_actions, myact)
      ELSE f_actions)))

RECURSIVE AddProducersToChain(_, _, _)
\* lines 2908-2912
AddProducersToChain(W, f_actions, i) ==
  IF i > Len(f_actions) THEN W
  ELSE AddProducersToChain(
         addActionToChain(W, f_actions[1], <<f_actions[1]>>, f_actions[i]).W,
         f_actions, i + 1)

\* lines 2886-2890: the labels of the actions of the arguments
ArgumentLabels(W, self) ==
  SelectIdx([p \in 1..Len(W) |-> p \in Range(W[self].arguments)], 1, Len(W))

RECURSIVE AddThisToChain(_, _, _, _)
\* lines 2915-2925: st holds the actions W and the locals added and all_setup
AddThisToChain(self, alabels, i, st) ==
  IF i > Len(st.W[self].arguments) THEN st
  ELSE
    With(st.W[self].arguments[i], LAMBDA v :
    With(addActionToChain(st.W, v, alabels, self), LAMBDA try :
      IF canChainFromThisAction(st.W[v]) /\ st.W[v].rank > 0 /\ try.ok
      THEN [W |-> try.W, added |-> TRUE, all_setup |-> st.all_setup]
      ELSE AddThisToChain(self, alabels, i + 1,
             [st EXCEPT !.all_setup = @ /\ ~canChainFromThisAction(st.W[v])])))

\* lines 2929-2946, every action having one component
ChainDerivatives(W, self) ==
  SumSeq([i \in 1..Len(W[self].distinct_arguments) |->
            IF W[self].distinct_arguments[i].second = 0
            THEN W[W[self].distinct_arguments[i].first].nderivatives
            ELSE getNumberOfValues(W, W[self].distinct_arguments[i].first)])

\* ActionWithArguments::setupActionInChain, with argstart 0: the actions, the
\* number of derivatives it returns and whether it returned at all
setupActionInChain(W, self) ==
  With(AddProducersToChain(W, ChainProducers(W, self, 1, << >>), 2), LAMBDA W1 :
  With(AddThisToChain(self, ArgumentLabels(W1, self), 1,
         [W |-> W1, added |-> FALSE, all_setup |-> TRUE]), LAMBDA st :
    [W |-> st.W, ok |-> st.all_setup \/ st.added,
     nderivatives |-> ChainDerivatives(st.W, self)]))

\* ActionWithArguments::getNumberOfScalarArguments
getNumberOfScalarArguments(W, self) ==
  SumSeq([i \in 1..Len(W[self].arguments) |-> getNumberOfValues(W, W[self].arguments[i])])

\* the lengths of the vectors among the arguments
VectorLengths(W, self) ==
  { W[v].ntasks : v \in { u \in Range(W[self].arguments) : W[u].rank = 1 } }

\* FunctionOfVector<T>::getNumberOfFinalTasks; the vectors have one length
\* where it is used
getNumberOfFinalTasks(W, self) ==
  With(VectorLengths(W, self), LAMBDA lengths :
    IF lengths = {} THEN 0 ELSE CHOOSE l \in lengths : TRUE)

\* The constructor of FunctionOfVector<T>, for a function that is done with
\* tasks, after the constructor of ActionWithArguments: the actions and
\* whether the constructor returned
FunctionOfVector(W, self) ==
  IF Cardinality(VectorLengths(W, self)) > 1 THEN [W |-> W, ok |-> FALSE]
  ELSE
    With([W EXCEPT ![self].nderivatives = getNumberOfScalarArguments(W, self),
                   ![self].rank = 1,
                   ![self].ntasks = getNumberOfFinalTasks(W, self)], LAMBDA W1 :
      IF W1[self].distinct_arguments # << >>
      THEN With(setupActionInChain(W1, self), LAMBDA c :
             [W |-> [c.W EXCEPT ![self].nderivatives = c.nderivatives], ok |-> c.ok])
      ELSE [W |-> [W1 EXCEPT ![self].done_over_stream = FALSE], ok |-> TRUE])

(***************************************************************************)
(* The derivative indices of a task (FunctionOfVector<T>::performTask and  *)
(* MultiColvarBase::performTask).  Arguments are numbered from 1 here and  *)
(* tasks and derivative indices from 0, as in the code.                    *)
(***************************************************************************)
\* ActionWithValue::actionInChain
actionInChain(W, a) == W[a].action_to_do_before # 0

\* MultiColvarBase::performTask, for an action with one atom for each task,
\* atom t for task t: the indices the task marks as active
MultiColvarIndices(W, a, t) ==
  { 3 * t + c : c \in 0..2 } \cup { 3 * W[a].ntasks + i : i \in 0..8 }

RECURSIVE performTask(_, _, _)

\* the indices that are active for the value of action v in the stream when
\* task t reaches an action that is chained after it
StreamIndices(W, v, t) ==
  IF isActionAtomistic(W[v]) THEN MultiColvarIndices(W, v, t)
  ELSE IF W[v].kind = "FUNCTION" THEN performTask(W, v, t)
  ELSE {}

\* ActionWithArguments::getArgumentPositionInStream for argument j of self:
\* the indices that are active at the position it returns.  For an argument
\* that is stored for self this is the index of the task, or 0 for a scalar.
ArgumentActiveIndices(W, self, j, t) ==
  IF self \in W[W[self].arguments[j]].store_data_for
  THEN {IF W[W[self].arguments[j]].rank > 0 THEN t ELSE 0}
  ELSE StreamIndices(W, W[self].arguments[j], t)

\* lines 209-230: the indices task t of the chained action self marks as
\* active on behalf of argument j
ChainIndicesOfArgument(W, self, j, t) ==
  IF \E k \in 1..(j - 1) : W[self].arg_deriv_starts[k] = W[self].arg_deriv_starts[j]
  THEN {}
  ELSE { W[self].arg_deriv_starts[j] + kind : kind \in ArgumentActiveIndices(W, self, j, t) }

\* lines 233-249 without the advance of base by the number of values
BaseOfArgumentMutant(W, self, j) == j - 1

\* lines 233 and 248: the value of base when the loop reaches argument j
BaseOfArgument(W, self, j) ==
  SumSeq([i \in 1..(j - 1) |-> getNumberOfValues(W, W[self].arguments[i])])

\* lines 235-247: the index task current marks as active for argument j when
\* self is not in a chain
IndexOfArgument(W, self, j, current) ==
  IF W[W[self].arguments[j]].rank = 1
  THEN BaseOfArgument(W, self, j) + current
  ELSE BaseOfArgument(W, self, j)

\* FunctionOfVector<T>::performTask: the derivative indices task t marks as
\* active for the output of self
performTask(W, self, t) ==
  IF actionInChain(W, self) /\ W[self].arg_deriv_starts # << >>
  THEN UNION { ChainIndicesOfArgument(W, self, j, t) : j \in 1..Len(W[self].arguments) }
  ELSE { IndexOfArgument(W, self, j, t) : j \in 1..Len(W[self].arguments) }

RECURSIVE ForcesLoop(_, _, _, _, _, _)
\* lines 3161-3166: the loops of setForcesOnArguments over the arguments i
\* and their elements j for an action that is not computed over the stream.
\* out lists the calls of addForce: the argument, the element and the
\* position of the entry of the force vector that is added
ForcesLoop(W, self, i, j, start, out) ==
  IF i > Len(W[self].arguments) THEN [start |-> start, out |-> out]
  ELSE IF j >= getNumberOfValues(W, W[self].arguments[i])
  THEN ForcesLoop(W, self, i + 1, 0, start, out)
  ELSE ForcesLoop(W, self, i, j + 1, start + 1,
                  Append(out, [arg |-> i, element |-> j, pos |-> start]))

(***************************************************************************)
(* PlumedMain (core/PlumedMain.cpp): reading the input                     *)
(***************************************************************************)
\* the labels of the actions with a value
ValueLabels(W) == { p \in 1..Len(W) : isActionWithValue(W[p]) }

\* the argument lists an input line can name: one or two values
ArgLists(labels) ==
  { <<v>> : v \in labels } \cup { <<u, v>> : u, v \in labels }

\* the argument lists without a repeated value, in input order
DistinctArgLists(labels) ==
  { arg \in ArgLists(labels) : Len(arg) = 1 \/ arg[1] < arg[2] }

\* the lengths of the vectors of the model
TaskCounts == {1, 2}

\* the number of derivatives of an atomistic action with one atom for each
\* of its tasks: three for each atom and nine for the box
AtomisticDerivatives(ntasks) == 3 * ntasks + 9

\* The MD code gives commands as long as no error has ended the run and
\* PLUMED has not told it to stop
Running == failure = "none" /\ stopFlag # "1"

\* actionRegister().create: the constructors of the action of an input line,
\* run on the actions of the action set followed by the new action
create(W, kind, arg, allow_streams) ==
  With(IF isActionWithArguments(W[Len(W)])
       THEN requestArguments(W, Len(W), Len(W) - 1, arg, allow_streams)
       ELSE W, LAMBDA W1 :
    IF kind = "FUNCTION" /\ VectorLengths(W1, Len(W)) # {}
    THEN FunctionOfVector(W1, Len(W))
    ELSE [W |-> W1, ok |-> TRUE])

\* PlumedMain::readInputWords: the action is appended when its constructor
\* has returned; an error in the constructor ends the run
readInputWords(kind, rank, ntasks, constant, arg, allow_streams) ==
  /\ Running
  /\ \E c \in { create(Append(actionSet,
                     NewAction(kind, rank, ntasks, constant,
                               IF kind = "COLVAR" THEN AtomisticDerivatives(ntasks) ELSE 0)),
                   kind, arg, allow_streams) } :
       IF c.ok
       THEN /\ actionSet' = c.W
            /\ isActive' = Append(isActive, FALSE)
            /\ inputForces' = Append(inputForces, {})
            /\ wasset' = Append(wasset, FALSE)
            /\ failure' = "none"
       ELSE /\ actionSet' = SubSeq(c.W, 1, Len(actionSet))
            /\ failure' = "error in input"
            /\ UNCHANGED <<isActive, inputForces, wasset>>
  /\ lastCmd' = "readInputLine"
  /\ trace' = << >>
  /\ UNCHANGED <<active, stopFlag>>

\* the input lines of the model.  An input action holds a scalar or a
\* constant vector; an atomistic action has a vector of tasks; a function has
\* numbered ARG keywords (allow_streams) or a plain ARG keyword, and a bias or
\* a printing action a plain ARG keyword.  A function is read as a scalar and
\* becomes a vector in the constructor of FunctionOfVector.
InputLines(labels) ==
  {[kind |-> "PUT", rank |-> 0, ntasks |-> 0, constant |-> FALSE, arg |-> << >>,
    allow_streams |-> FALSE]}
  \cup {[kind |-> "PUT", rank |-> 1, ntasks |-> nt, constant |-> TRUE, arg |-> << >>,
         allow_streams |-> FALSE] : nt \in TaskCounts}
  \cup {[kind |-> "COLVAR", rank |-> 1, ntasks |-> nt, constant |-> FALSE, arg |-> << >>,
         allow_streams |-> FALSE] : nt \in TaskCounts}
  \cup {[kind |-> "FUNCTION", rank |-> 0, ntasks |-> 0, constant |-> FALSE, arg |-> arg,
         allow_streams |-> TRUE] : arg \in ArgLists(labels)}
  \cup {[kind |-> kind, rank |-> 0, ntasks |-> 0, constant |-> FALSE, arg |-> arg,
         allow_streams |-> FALSE] :
           kind \in {"FUNCTION", "BIAS", "PRINT"}, arg \in DistinctArgLists(labels)}

\* cmd("readInputLine") for an input of at most limit lines
ReadInputLineUpTo(limit) ==
  /\ Len(actionSet) < limit
  /\ \E line \in InputLines(ValueLabels(actionSet)) :
       readInputWords(line.kind, line.rank, line.ntasks, line.constant, line.arg,
                      line.allow_streams)

\* cmd("readInputLine")
ReadInputLine == ReadInputLineUpTo(MaxActions)

(***************************************************************************)
(* PlumedMain: the phases of a step.  A phase takes and returns the record *)
(* m of what the step changes: the actions W, PlumedMain::active, the      *)
(* flags Action::active, the forces on the values, the stop flag, the      *)
(* failure that ended the run and the trace of the command.                *)
(***************************************************************************)
Event(op, a, f) == [op |-> op, a |-> a, f |-> f]

Log(m, op, a, f) == [m EXCEPT !.trace = Append(@, Event(op, a, f))]

\* pilots=actionSet.select<ActionPilot*>()
pilots(W) == { p \in 1..Len(W) : isActionPilot(W[p]) }

\* PlumedMain::setupInterfaceActions: the ActionForInterface actions without
\* dependencies
inputs(W) == { p \in 1..Len(W) : isActionForInterface(W[p]) /\ W[p].dependencies = {} }

\* ActionToPutData::onStep returns false
inputsAreActive(W) == FALSE

\* Action::activate on each pilot of onStep: the pilots and all they depend
\* on, directly or through other actions
activate(W, onStep) == DependencyClosure(W, onStep, Len(W))

\* prepareDependencies without the loop that switches the actions off
deactivateMutant(m) == m

\* lines 2076-2078: Action::deactivate on every action of the set
deactivate(m) == [m EXCEPT !.isActive = [p \in 1..Len(m.W) |-> FALSE]]

\* PlumedMain::prepareDependencies.  onStep are the pilots that are on step;
\* the event of the trace holds them.  The store through stopFlag is
\* undefined when the pointer is null: ub is "crash" when it kills the
\* process and "ignored" when it has no effect.
prepareDependencies(m, onStep, ub) ==
  With(activate(m.W, onStep), LAMBDA on :
  With([deactivate(m) EXCEPT !.isActive = [p \in 1..Len(m.W) |-> @[p] \/ p \in on],
                 !.active = onStep # {},
                 !.trace = Append(@, Event("prepareDependencies", 0, onStep))], LAMBDA m1 :
    IF m1.active \/ inputsAreActive(m.W) THEN m1
    ELSE IF m.stopFlag # "NULL" THEN [m1 EXCEPT !.stopFlag = "1"]
    ELSE IF ub = "crash" THEN [m1 EXCEPT !.failure = "null stopFlag"]
    ELSE m1))

RECURSIVE LogEach(_, _, _, _)
\* an event for each action of the set as, in input order
LogEach(m, op, as, p) ==
  IF p > Len(m.W) THEN m
  ELSE LogEach(IF p \in as THEN Log(m, op, p, {}) ELSE m, op, as, p + 1)

\* PlumedMain::shareData
shareData(m) ==
  IF ~m.active THEN Log(m, "shareData", 0, {})
  ELSE LogEach(Log(m, "shareData", 0, {}), "share", inputs(m.W), 1)

RECURSIVE WaitLoop(_, _, _)
\* lines 2138-2141
WaitLoop(m, set, p) ==
  IF p > Len(m.W) THEN m
  ELSE WaitLoop(
         IF p \in inputs(m.W) /\ m.isActive[p]
         THEN (IF set[p] THEN Log(m, "wait", p, {}) ELSE Log(m, "warning", p, {}))
         ELSE m,
         set, p + 1)

\* PlumedMain::waitData; set is ActionForInterface::wasset by label
waitData(m, set) ==
  IF ~m.active THEN Log(m, "waitData", 0, {})
  ELSE WaitLoop(Log(m, "waitData", 0, {}), set, 1)

\* lines 2175-2186 without the call of clearInputForces
CalculateActionMutant(m, p) == Log(m, "calculate", p, {})

\* lines 2175-2186: an action with a value has its input forces and its
\* derivatives cleared, then the action is calculated; the event of the
\* clearing records the forces that were cleared
CalculateAction(m, p) ==
  IF isActionWithValue(m.W[p])
  THEN Log(Log([m EXCEPT !.inputForces[p] = {}], "clearInputForces", p, m.inputForces[p]),
           "calculate", p, {})
  ELSE Log(m, "calculate", p, {})

RECURSIVE ForwardLoopMutant(_, _)
\* the forward pass going through the action set from its end
ForwardLoopMutant(m, p) ==
  IF p > Len(m.W) THEN m
  ELSE IF m.isActive[p] THEN CalculateAction(ForwardLoopMutant(m, p + 1), p)
  ELSE ForwardLoopMutant(m, p + 1)

RECURSIVE ForwardLoop(_, _)
\* lines 2160-2197: the active actions in the order of the action set
ForwardLoop(m, p) ==
  IF p > Len(m.W) THEN m
  ELSE ForwardLoop(IF m.isActive[p] THEN CalculateAction(m, p) ELSE m, p + 1)

\* PlumedMain::justCalculate
justCalculate(m) ==
  IF ~m.active THEN Log(m, "justCalculate", 0, {})
  ELSE ForwardLoop(Log(m, "justCalculate", 0, {}), 1)

RECURSIVE addForces(_, _, _, _)
\* Value::addForce on the value of each argument of the list arg: the force
\* carries the marks f
addForces(m, arg, i, f) ==
  IF i > Len(arg) THEN m
  ELSE addForces(Log([m EXCEPT !.inputForces[arg[i]] = @ \cup f], "addForce", arg[i], f),
                 arg, i + 1, f)

\* lines 3139-3157: the arguments of p that are stored for p and belong to
\* the action first
StoredArgumentsOf(W, p, first) ==
  SelectSeq(W[p].arguments, LAMBDA v : p \in W[v].store_data_for /\ v = first)

RECURSIVE setForcesOnArguments(_, _, _)
RECURSIVE DistinctArgumentsLoop(_, _, _, _)

\* ActionWithArguments::setForcesOnActionChain
setForcesOnActionChain(m, av, f) ==
  IF isActionWithArguments(m.W[av]) THEN setForcesOnArguments(m, av, f)
  ELSE IF isActionAtomistic(m.W[av]) THEN Log(m, "setForcesOnAtoms", av, f)
  ELSE m

\* lines 3133-3159: the loop over distinct_arguments of an action that is
\* computed over the stream
DistinctArgumentsLoop(m, p, i, f) ==
  IF i > Len(m.W[p].distinct_arguments) THEN m
  ELSE DistinctArgumentsLoop(
         IF m.W[p].distinct_arguments[i].second = 0
         THEN setForcesOnActionChain(m, m.W[p].distinct_arguments[i].first, f)
         ELSE addForces(m, StoredArgumentsOf(m.W, p, m.W[p].distinct_arguments[i].first), 1, f),
         p, i + 1, f)

\* ActionWithArguments::setForcesOnArguments, the forces carrying the marks f
setForcesOnArguments(m, p, f) ==
  IF m.W[p].done_over_stream THEN DistinctArgumentsLoop(m, p, 1, f)
  ELSE addForces(m, m.W[p].arguments, 1, f)

\* Action::apply of action p.  A bias adds the forces of this step to its
\* arguments; a function passes on the forces its value holds
\* (FunctionOfVector<T>::apply); the other actions only read theirs.
apply(m, p) ==
  IF m.W[p].kind = "BIAS" \/ (m.W[p].kind = "FUNCTION" /\ m.inputForces[p] # {})
  THEN setForcesOnArguments(Log(m, "apply", p, m.inputForces[p]), p,
         IF m.W[p].kind = "BIAS" THEN {"new"} ELSE m.inputForces[p])
  ELSE Log(m, "apply", p, m.inputForces[p])

RECURSIVE ForwardApplyLoop(_, _)
ForwardApplyLoop(m, p) ==
  IF p > Len(m.W) THEN m
  ELSE ForwardApplyLoop(IF m.isActive[p] THEN apply(m, p) ELSE m, p + 1)

RECURSIVE BackwardLoop(_, _)
\* lines 2211-2232: the active actions from the end of the action set
BackwardLoop(m, p) ==
  IF p < 1 THEN m
  ELSE BackwardLoop(IF m.isActive[p] THEN apply(m, p) ELSE m, p - 1)

\* the backward pass going through the action set from its start
backwardPropagateMutant(m) ==
  IF ~m.active THEN Log(m, "backwardPropagate", 0, {})
  ELSE ForwardApplyLoop(Log(m, "backwardPropagate", 0, {}), 1)

\* PlumedMain::backwardPropagate
backwardPropagate(m) ==
  IF ~m.active THEN Log(m, "backwardPropagate", 0, {})
  ELSE BackwardLoop(Log(m, "backwardPropagate", 0, {}), Len(m.W))

\* PlumedMain::update
update(m) ==
  IF ~m.active THEN Log(m, "update", 0, {})
  ELSE LogEach(Log(m, "update", 0, {}), "updateAction",
               { p \in 1..Len(m.W) : m.isActive[p] }, 1)

\* the phases of performCalc with the forward pass before the wait
performCalcMutant(m, set) == update(backwardPropagate(waitData(justCalculate(m), set)))

\* PlumedMain::performCalc
performCalc(m, set) == update(backwardPropagate(justCalculate(waitData(m, set))))

\* PlumedMain::performCalcNoUpdate
performCalcNoUpdate(m, set) == backwardPropagate(justCalculate(waitData(m, set)))

\* PlumedMain::prepareCalc
prepareCalc(m, onStep, ub) ==
  With(prepareDependencies(m, onStep, ub), LAMBDA m1 :
    IF m1.failure # "none" THEN m1 ELSE shareData(m1))

\* PlumedMain::calc; the run ends in prepareDependencies when the store
\* through a null stopFlag kills the process
calc(m, onStep, ub, set) ==
  With(prepareCalc(m, onStep, ub), LAMBDA m1 :
    IF m1.failure # "none" THEN m1 ELSE performCalc(m1, set))

(***************************************************************************)
(* FindContour (contour/FindContour.cpp)                                   *)
(***************************************************************************)
\* Grid values and isovalues in tenths: 2 is 0.2, 5 is 0.5.
GridValues == {2, 3, 5, 6}
ContourLevels == {3, 5}

getRank == Len(nbin)

RECURSIVE Product(_)
Product(s) == IF s = << >> THEN 1 ELSE s[1] * Product(Tail(s))

\* unsigned npoints = Value::getNumberOfValues() of the grid argument
npoints == Product(nbin)

\* GridCoordinatesObject::getNbin(false): the number of points along each
\* dimension
getNbin == nbin

\* GridCoordinatesObject::getIndices: the first dimension runs fastest
getIndices(i) ==
  [j \in 1..getRank |-> (i \div Product(SubSeq(nbin, 1, j - 1))) % nbin[j]]

\* GridCoordinatesObject::getIndex
getIndex(ind) ==
  SumSeq([j \in 1..getRank |-> ind[j] * Product(SubSeq(nbin, 1, j - 1))])

isPeriodic(j) == pbc[j]

\* The test of line 166 on the two shifted values, mutated to accept a value
\* that is equal to the isovalue.
CrossesMutant(val1, val2) == val1 * val2 <= 0

\* line 166: if( val1*val2<0 )
Crosses(val1, val2) == val1 * val2 < 0

\* One pass of the loop over the dimensions of setupCurrentTaskList (lines
\* 160-169) for grid point i and dimension j (1-based here, j-1 in the code).
\* st holds the loop's locals ind and edge and the task list being built.
DimensionStep(i, j, st) ==
  IF ~isPeriodic(j) /\ st.ind[j] + 1 = getNbin[j]
  THEN st
  ELSE
    With(st.ind[j] + 1 = getNbin[j], LAMBDA wrap :
    With(IF wrap THEN TRUE ELSE st.edge, LAMBDA edge1 :
    With([st.ind EXCEPT ![j] = IF wrap THEN 0 ELSE @ + 1], LAMBDA ind1 :
    With(isPeriodic(j) /\ edge1, LAMBDA restore :
      [ind |-> [ind1 EXCEPT ![j] = IF restore THEN getNbin[j] - 1 ELSE @ - 1],
       edge |-> IF restore THEN FALSE ELSE edge1,
       tasks |-> IF Crosses(grid[i] - contour, grid[getIndex(ind1)] - contour)
                 THEN Append(st.tasks, getRank * i + (j - 1))
                 ELSE st.tasks]))))

RECURSIVE DimensionLoop(_, _, _)
DimensionLoop(i, j, st) ==
  IF j > getRank THEN st.tasks
  ELSE DimensionLoop(i, j + 1, DimensionStep(i, j, st))

RECURSIVE PointLoop(_, _)
\* the loop over the grid points (lines 144-170)
PointLoop(i, tasks) ==
  IF i >= npoints THEN tasks
  ELSE PointLoop(i + 1,
         DimensionLoop(i, 1, [ind |-> getIndices(i), edge |-> FALSE, tasks |-> tasks]))

\* FindContour::setupCurrentTaskList: the tasks it adds to the list given
setupCurrentTaskList(tasks) == PointLoop(0, tasks)

GridShapes ==
  { <<n>> : n \in 1..MaxNbin } \cup { <<n, 2>> : n \in 1..MaxNbin2 }

InitContour ==
  /\ nbin \in GridShapes
  /\ pbc \in [1..Len(nbin) -> BOOLEAN]
  /\ grid \in [0..(Product(nbin) - 1) -> GridValues]
  /\ contour \in ContourLevels
  /\ taskList = << >>

\* The state of the contour variables in the specifications of the other parts
IdleContour ==
  /\ nbin = <<1>>
  /\ pbc = <<FALSE>>
  /\ grid = [i \in {0} |-> 5]
  /\ contour = 5
  /\ taskList = << >>

\* ActionWithValue::runAllTasks asks the action for its task list once the
\* list of the previous step has been emptied
SetupCurrentTaskList ==
  /\ taskList = << >>
  /\ taskList' = setupCurrentTaskList(taskList)
  /\ UNCHANGED <<nbin, pbc, grid, contour>>

\* the task list is emptied when the next calculation is set up; a list that
\* is empty already is the case of a grid without any crossing
ClearTaskList ==
  /\ taskList # << >>
  /\ taskList' = << >>
  /\ UNCHANGED <<nbin, pbc, grid, contour>>


(***************************************************************************)
(* PlumedMain::cmd                                                         *)
(***************************************************************************)
\* The forces that are on the values when a command starts were added by an
\* earlier command: they are marked "old", and those added from now on "new"
Aged(forces) == [p \in 1..Len(forces) |-> IF forces[p] = {} THEN {} ELSE {"old"}]

\* the record the phases of a command work on
StartCommand ==
  [W |-> actionSet, active |-> active, isActive |-> isActive,
   inputForces |-> Aged(inputForces), stopFlag |-> stopFlag,
   failure |-> failure, trace |-> << >>]

\* the state a command leaves
EndCommand(word, m) ==
  /\ actionSet' = m.W
  /\ active' = m.active
  /\ isActive' = m.isActive
  /\ inputForces' = m.inputForces
  /\ stopFlag' = m.stopFlag
  /\ failure' = m.failure
  /\ lastCmd' = word
  /\ trace' = m.trace
  /\ UNCHANGED wasset

\* the outcomes of the store through stopFlag
Outcomes(onStep) ==
  IF onStep = {} /\ stopFlag = "NULL" THEN {"crash", "ignored"} ELSE {"ignored"}

\* cmd("calc")
Calc ==
  /\ Running
  /\ \E onStep \in SUBSET pilots(actionSet) :
       \E ub \in Outcomes(onStep) :
         \E m \in {calc(StartCommand, onStep, ub, wasset)} : EndCommand("calc", m)

\* cmd("prepareCalc")
PrepareCalc ==
  /\ Running
  /\ \E onStep \in SUBSET pilots(actionSet) :
       \E ub \in Outcomes(onStep) :
         \E m \in {prepareCalc(StartCommand, onStep, ub)} : EndCommand("prepareCalc", m)

\* cmd("performCalc")
PerformCalc ==
  /\ Running
  /\ \E m \in {performCalc(StartCommand, wasset)} : EndCommand("performCalc", m)

\* cmd("performCalcNoUpdate")
PerformCalcNoUpdate ==
  /\ Running
  /\ \E m \in {performCalcNoUpdate(StartCommand, wasset)} :
       EndCommand("performCalcNoUpdate", m)

\* cmd("setValue"): the data of an input action is set
SetInputValue ==
  /\ Running
  /\ \E p \in inputs(actionSet) :
       /\ ~wasset[p]
       /\ wasset' = [wasset EXCEPT ![p] = TRUE]
  /\ lastCmd' = "setValue"
  /\ trace' = << >>
  /\ UNCHANGED <<actionSet, active, isActive, inputForces, stopFlag, failure>>

\* cmd("setStopFlag"): stopFlag points to an integer of the MD code
SetStopFlag ==
  /\ Running
  /\ stopFlag = "NULL"
  /\ stopFlag' = "0"
  /\ lastCmd' = "setStopFlag"
  /\ trace' = << >>
  /\ UNCHANGED <<actionSet, active, isActive, inputForces, wasset, failure>>

\* the state after the constructor of PlumedMain and cmd("init")
InitMain ==
  /\ actionSet = << >>
  /\ active = FALSE
  /\ isActive = << >>
  /\ inputForces = << >>
  /\ wasset = << >>
  /\ stopFlag = "NULL"
  /\ failure = "none"
  /\ lastCmd = "init"
  /\ trace = << >>

Init == InitMain /\ IdleContour /\ IdleAtoms /\ IdlePack /\ IdleFilter /\ IdleLoop /\ IdleCtor /\ IdleSecondaryStructure /\ IdleNumerics /\ IdleCheckpoint /\ IdleCmd /\ IdleRun /\ IdleForward /\ IdleEnergy /\ IdleLabel /\ IdleExpansion

Next ==
  \/ (ReadInputLine /\ UNCHANGED <<contourVars, atomVars, packVars, filterVars, loopVars, ctorVars, ssVars, numVars, ckptVars, apiVars, runVars, fwdVars, energyVars, labelVars, expandVars>>)
  \/ (SetInputValue /\ UNCHANGED <<contourVars, atomVars, packVars, filterVars, loopVars, ctorVars, ssVars, numVars, ckptVars, apiVars, runVars, fwdVars, energyVars, labelVars, expandVars>>)
  \/ (SetStopFlag /\ UNCHANGED <<contourVars, atomVars, packVars, filterVars, loopVars, ctorVars, ssVars, numVars, ckptVars, apiVars, runVars, fwdVars, energyVars, labelVars, expandVars>>)
  \/ (Calc /\ UNCHANGED <<contourVars, atomVars, packVars, filterVars, loopVars, ctorVars, ssVars, numVars, ckptVars, apiVars, runVars, fwdVars, energyVars, labelVars, expandVars>>)
  \/ (PrepareCalc /\ UNCHANGED <<contourVars, atomVars, packVars, filterVars, loopVars, ctorVars, ssVars, numVars, ckptVars, apiVars, runVars, fwdVars, energyVars, labelVars, expandVars>>)
  \/ (PerformCalc /\ UNCHANGED <<contourVars, atomVars, packVars, filterVars, loopVars, ctorVars, ssVars, numVars, ckptVars, apiVars, runVars, fwdVars, energyVars, labelVars, expandVars>>)
  \/ (PerformCalcNoUpdate /\ UNCHANGED <<contourVars, atomVars, packVars, filterVars, loopVars, ctorVars, ssVars, numVars, ckptVars, apiVars, runVars, fwdVars, energyVars, labelVars, expandVars>>)

Spec == Init /\ [][Next]_vars

(***************************************************************************)
(* Properties of the step                                                  *)
(***************************************************************************)
\* the positions in the trace of the events op
Positions(op) == { i \in 1..Len(trace) : trace[i].op = op }

\* the actions of the events op, in the order of the events
ActionsOf(op) ==
  [i \in 1..Cardinality(Positions(op)) |-> SelectSeq(trace, LAMBDA e : e.op = op)[i].a]

\* the phases the last command went through, in order
PhasesOf == [i \in 1..Cardinality({ j \in 1..Len(trace) : trace[j].a = 0 }) |->
               SelectSeq(trace, LAMBDA e : e.a = 0)[i].op]

\* the last command ran the forward and the backward pass to their end
StepRan ==
  lastCmd \in {"calc", "performCalc", "performCalcNoUpdate"} /\ failure = "none"

\* C1: in a step with a pilot on step, calculate() is called on the active
\* actions in the order of the action set and apply() on the same actions in
\* exactly the reverse order.
C1_BackwardReversesForward ==
  (StepRan /\ active) =>
    /\ ActionsOf("calculate") = SelectIdx(isActive, 1, Len(actionSet))
    /\ ActionsOf("apply") = Reverse(ActionsOf("calculate"))

\* a step in which the two passes went through at least two active actions
C1_Witness ==
  StepRan /\ active /\ Len(ActionsOf("calculate")) >= 2 /\ Len(ActionsOf("apply")) >= 2

\* C2: every dependency of an action is on an action that precedes it in the
\* action set, no action depends on itself through any number of
\* dependencies, and in the forward pass every dependency of an action has
\* been calculated when the action is calculated.
C2_DependenciesPrecede ==
  /\ \A a \in 1..Len(actionSet) :
       /\ \A d \in actionSet[a].dependencies : d < a
       /\ ~checkForDependency(actionSet, a, a)
  /\ \A i \in Positions("calculate") :
       \A d \in actionSet[trace[i].a].dependencies :
         \E j \in Positions("calculate") : j < i /\ trace[j].a = d

\* an action whose dependency has a dependency itself has been calculated
C2_Witness ==
  \E i \in Positions("calculate") :
    \E d \in actionSet[trace[i].a].dependencies : actionSet[d].dependencies # {}

\* C3: one call of calc() goes through the phases prepareDependencies,
\* shareData, waitData, justCalculate, backwardPropagate, update in this
\* order; every active action is calculated before the first apply(), and
\* every active input whose data has been set is waited on before the first
\* calculate().
C3_PhasesInOrder ==
  (lastCmd = "calc" /\ failure = "none") =>
    /\ PhasesOf = <<"prepareDependencies", "shareData", "waitData", "justCalculate",
                    "backwardPropagate", "update">>
    /\ \A i \in Positions("apply") :
         /\ \A j \in Positions("calculate") : j < i
         /\ active =>
              \A p \in 1..Len(actionSet) :
                isActive[p] => \E j \in Positions("calculate") : trace[j].a = p
    /\ \A j \in Positions("calculate") :
         \A p \in inputs(actionSet) :
           (isActive[p] /\ wasset[p]) =>
             \E w \in Positions("wait") : w < j /\ trace[w].a = p

\* a call of calc() that waited on an input and calculated and applied
C3_Witness ==
  /\ lastCmd = "calc" /\ failure = "none"
  /\ Positions("wait") # {}
  /\ Cardinality(Positions("calculate")) >= 2
  /\ Positions("apply") # {}

\* C9: the forces an action reads in apply() were all added in this step; a
\* force is added to a value only after the forward pass of this step has
\* cleared the forces of the value, and the forces are not cleared again
\* before the apply() of the action that holds the value, which follows.
C9_NoForceCarriesOver ==
  \A i \in 1..Len(trace) :
    /\ trace[i].op = "apply" => trace[i].f \subseteq {"new"}
    /\ trace[i].op = "addForce" =>
         /\ \E c \in Positions("clearInputForces") : c < i /\ trace[c].a = trace[i].a
         /\ \E k \in Positions("apply") :
              /\ k > i /\ trace[k].a = trace[i].a
              /\ \A c \in Positions("clearInputForces") :
                   trace[c].a = trace[i].a => ~(i < c /\ c < k)

\* forces of an earlier step were on the value of an action when the forward
\* pass cleared them, and the action read forces of this step in apply()
C9_Witness ==
  \E c \in Positions("clearInputForces") :
    /\ trace[c].f = {"old"}
    /\ \E k \in Positions("apply") : k > c /\ trace[k].a = trace[c].a /\ trace[k].f = {"new"}

(***************************************************************************)
(* Reading the input on its own: the action graph of a longer input        *)
(***************************************************************************)
NextGraph == ReadInputLineUpTo(MaxGraphActions) /\ UNCHANGED <<contourVars, atomVars, packVars, filterVars, loopVars, ctorVars, ssVars, numVars, ckptVars, apiVars, runVars, fwdVars, energyVars, labelVars, expandVars>>

SpecGraph == Init /\ [][NextGraph]_vars

(***************************************************************************)
(* Properties of the action graph                                          *)
(***************************************************************************)
RECURSIVE Producers(_, _, _, _)
\* the producing actions of the arguments arg, in the order in which the
\* loop over the arguments meets them
Producers(W, arg, i, f_actions) ==
  IF i > Len(arg) THEN f_actions
  ELSE Producers(W, arg, i + 1, AddProducer(W, f_actions, arg[i]))

\* the producing actions f after the first have the number of tasks of the
\* first, and the first does not depend on any of them
SameTasksAndNoLoop(W, f) ==
  \A i \in 2..Len(f) :
    /\ W[f[i]].ntasks = W[f[1]].ntasks
    /\ ~checkForDependency(W, f[1], f[i])

\* an action with a value and the producing actions f has been constructed
\* as the last action of the action set
Constructed(f) ==
  /\ Len(actionSet') = Len(actionSet) + 1
  /\ isActionWithValue(actionSet'[Len(actionSet')])
  /\ f = Producers(actionSet, actionSet'[Len(actionSet')].arguments, 1, << >>)
  /\ Len(f) > 1

\* every argument of rank above 0 of the action that has been constructed
\* is stored for it
VectorsStored ==
  \A v \in Range(actionSet'[Len(actionSet')].arguments) :
    actionSet[v].rank > 0 => Len(actionSet') \in actionSet'[v].store_data_for

\* C4 as it was stated: an action with several distinct producing actions
\* is computed over the stream only if each producing action has the number
\* of tasks of the first, the first does not depend on any other, and every
\* dependency of the others is before the first in the action set; when it
\* is not computed over the stream, every argument of rank above 0 is stored
\* for it.
C4_StreamOnlyWhenLegal ==
  [][ \A f \in {Producers(actionSet, actionSet'[Len(actionSet')].arguments, 1, << >>)} :
        Constructed(f) =>
          /\ actionSet'[Len(actionSet')].done_over_stream =>
               /\ SameTasksAndNoLoop(actionSet, f)
               /\ \A i \in 2..Len(f) : \A d \in actionSet[f[i]].dependencies : d < f[1]
          /\ ~actionSet'[Len(actionSet')].done_over_stream => VectorsStored
    ]_vars

\* C4, amended: as above, a dependency of the others being the first
\* producing action itself or before it in the action set.
C4_StreamOnlyWhenChainable ==
  [][ \A f \in {Producers(actionSet, actionSet'[Len(actionSet')].arguments, 1, << >>)} :
        Constructed(f) =>
          /\ actionSet'[Len(actionSet')].done_over_stream =>
               /\ SameTasksAndNoLoop(actionSet, f)
               /\ \A i \in 2..Len(f) : \A d \in actionSet[f[i]].dependencies : d <= f[1]
          /\ ~actionSet'[Len(actionSet')].done_over_stream => VectorsStored
    ]_vars

\* an action with two producing actions is computed over the stream, and
\* another is not because a dependency of its second producing action is
\* after the first
C4_Witness ==
  /\ \E a \in 1..Len(actionSet) :
       /\ actionSet[a].done_over_stream
       /\ Cardinality(Range(actionSet[a].arguments)) = 2
       /\ \A v \in Range(actionSet[a].arguments) : actionSet[v].kind = "COLVAR"
  /\ \E a \in 1..Len(actionSet) :
       /\ actionSet[a].kind = "FUNCTION" /\ ~actionSet[a].done_over_stream
       /\ Len(actionSet[a].arguments) = 2
       /\ \A v \in Range(actionSet[a].arguments) : a \in actionSet[v].store_data_for
       /\ \E d \in actionSet[actionSet[a].arguments[2]].dependencies :
            d > actionSet[a].arguments[1]

\* the action a is computed over the stream, in the chain of an argument
Chained(a) == actionSet[a].done_over_stream /\ actionInChain(actionSet, a)

\* the constant arguments of the chained actions: the action and the
\* position of the argument
ConstantArguments ==
  { e \in (1..Len(actionSet)) \X (1..Len(actionSet)) :
      /\ Chained(e[1])
      /\ e[2] <= Len(actionSet[e[1]].arguments)
      /\ actionSet[actionSet[e[1]].arguments[e[2]]].constant }

\* lines 2929-2946: the number of derivatives of a that are there for the
\* action v
ReservedFor(a, v) ==
  SumSeq([i \in 1..Len(actionSet[a].distinct_arguments) |->
            IF actionSet[a].distinct_arguments[i].first # v THEN 0
            ELSE IF actionSet[a].distinct_arguments[i].second = 0
            THEN actionSet[v].nderivatives
            ELSE getNumberOfValues(actionSet, v)])

\* the indices task t of a marks as active on behalf of the arguments that
\* are the value of v
RegisteredFor(a, v, t) ==
  UNION { ChainIndicesOfArgument(actionSet, a, j, t) :
            j \in { k \in 1..Len(actionSet[a].arguments) : actionSet[a].arguments[k] = v } }

StoredFunctions ==
  { a \in 1..Len(actionSet) :
      /\ actionSet[a].kind = "FUNCTION" /\ actionSet[a].rank = 1
      /\ ~actionSet[a].done_over_stream }

\* C5: for a function that is not computed over the stream, the index that
\* task k marks for argument j is the sum of the numbers of values of the
\* arguments before j plus k (plus 0 for a scalar), and it is the position,
\* counted from start, of the force that setForcesOnArguments adds to that
\* element of argument j; the entries of the force vector from start on are
\* each added once, and start ends advanced by the number of values of all
\* the arguments, which is the number of derivatives of the function.
C5_BackwardMirrorsForward ==
  \A a \in StoredFunctions : \A start \in {0, 1} :
    \A r \in {ForcesLoop(actionSet, a, 1, 0, start, << >>)} :
      /\ r.start = start + getNumberOfScalarArguments(actionSet, a)
      /\ actionSet[a].nderivatives = getNumberOfScalarArguments(actionSet, a)
      /\ [n \in 1..Len(r.out) |-> r.out[n].pos] = [n \in 1..(r.start - start) |-> start + n - 1]
      /\ \A n \in 1..Len(r.out) :
           r.out[n].pos - start =
             SumSeq([i \in 1..(r.out[n].arg - 1) |->
                       getNumberOfValues(actionSet, actionSet[a].arguments[i])])
             + r.out[n].element
      /\ \A j \in 1..Len(actionSet[a].arguments) : \A k \in 0..(actionSet[a].ntasks - 1) :
           \E n \in 1..Len(r.out) :
             /\ r.out[n].arg = j
             /\ r.out[n].element = (IF actionSet[actionSet[a].arguments[j]].rank = 1 THEN k ELSE 0)
             /\ r.out[n].pos - start = IndexOfArgument(actionSet, a, j, k)
      /\ \A k \in 0..(actionSet[a].ntasks - 1) :
           performTask(actionSet, a, k) =
             { IndexOfArgument(actionSet, a, j, k) : j \in 1..Len(actionSet[a].arguments) }

\* a function of a vector of two tasks that is not computed over the stream
\* has passed the forces of a bias on to its argument
C5_Witness ==
  \E a \in StoredFunctions :
    /\ actionSet[a].ntasks = 2
    /\ \E i \in Positions("apply") : trace[i].a = a /\ trace[i].f = {"new"}
    /\ \E i \in Positions("addForce") : trace[i].a = actionSet[a].arguments[1]

(***************************************************************************)
(* FindContour on its own: a grid and an isovalue are given, and the task  *)
(* list is set up for one calculation after another                        *)
(***************************************************************************)
InitFindContour == InitContour /\ InitMain /\ IdleAtoms /\ IdlePack /\ IdleFilter /\ IdleLoop /\ IdleCtor /\ IdleSecondaryStructure /\ IdleNumerics /\ IdleCheckpoint /\ IdleCmd /\ IdleRun /\ IdleForward /\ IdleEnergy /\ IdleLabel /\ IdleExpansion

NextContour ==
  \/ (SetupCurrentTaskList /\ UNCHANGED <<mainVars, atomVars, packVars, filterVars, loopVars, ctorVars, ssVars, numVars, ckptVars, apiVars, runVars, fwdVars, energyVars, labelVars, expandVars>>)
  \/ (ClearTaskList /\ UNCHANGED <<mainVars, atomVars, packVars, filterVars, loopVars, ctorVars, ssVars, numVars, ckptVars, apiVars, runVars, fwdVars, energyVars, labelVars, expandVars>>)

SpecContour == InitFindContour /\ [][NextContour]_vars

(***************************************************************************)
(* Properties of FindContour                                               *)
(***************************************************************************)
\* grid point i has a forward neighbour along dimension j
HasForwardNeighbour(i, j) == pbc[j] \/ getIndices(i)[j] + 1 < nbin[j]

\* the forward neighbour of grid point i along dimension j, the last point
\* of a periodic dimension having the first as its neighbour
ForwardNeighbour(i, j) ==
  getIndex([getIndices(i) EXCEPT ![j] = (@ + 1) % nbin[j]])

\* the tasks of the edges on which the field minus the isovalue changes sign
SignChanges ==
  { getRank * i + (j - 1) : <<i, j>> \in
      { e \in (0..(npoints - 1)) \X (1..getRank) :
          /\ HasForwardNeighbour(e[1], e[2])
          /\ (grid[e[1]] - contour) * (grid[ForwardNeighbour(e[1], e[2])] - contour) < 0 } }

\* the 3-point periodic field [0.2, 0.6, 0.3] with the isovalue 0.5
ExampleField ==
  /\ nbin = <<3>>
  /\ pbc = <<TRUE>>
  /\ grid = [i \in 0..2 |-> <<2, 6, 3>>[i + 1]]
  /\ contour = 5

\* C10: setupCurrentTaskList adds the task of grid point i and dimension d
\* exactly when the forward neighbour of i along d exists and the field
\* minus the isovalue has strictly opposite signs at the two points; each
\* task is added once, no task has a point whose value equals the isovalue,
\* and the example field gives the two tasks of the edges 0-1 and 1-2.
C10_TasksAreSignChanges ==
  /\ Range(setupCurrentTaskList(<< >>)) = SignChanges
  /\ NoDuplicates(setupCurrentTaskList(<< >>))
  /\ taskList \in {<< >>, setupCurrentTaskList(<< >>)}
  /\ \A t \in Range(taskList) :
       /\ grid[t \div getRank] # contour
       /\ grid[ForwardNeighbour(t \div getRank, (t % getRank) + 1)] # contour
  /\ ExampleField => setupCurrentTaskList(<< >>) = <<0, 1>>

\* the task list of the example field has been set up
C10_Witness == ExampleField /\ taskList = <<0, 1>>

(***************************************************************************)
(* ReferenceValuePack (reference/ReferenceValuePack.cpp) over a MultiValue *)
(* of which only the active-index list and its update flag are kept.       *)
(***************************************************************************)

\* atoms of the action in the pack's specification
MaxPackAtoms == 2
\* arguments of the pack
MaxPackArgs == 1
\* atoms of the action in the specification of the atomistic tasks
MaxAtoms == 3
\* atoms of one secondary structure segment
MaxSegment == 2

\* the atom indices a task can hand to a pack: positions in the list of the
\* n atoms the action requested
AtomLists(n) == UNION { [1..len -> 0..(n - 1)] : len \in 1..MaxSegment }

\* MultiValue::getNumberOfDerivatives for an action with n atoms and a pack
\* with args arguments (SecondaryStructureRMSD::performTask resizes myvals to
\* 3*getNumberOfAtoms()+9 for its pack without arguments)
getNumberOfDerivatives(args, n) == args + 3 * n + 9

\* ReferenceValuePack::updateDynamicLists: the indices put in the active
\* array, with what each of them addresses
PackEntries(args, atoms, nder) ==
  { [kind |-> "arg", a |-> i, c |-> 0, index |-> i] : i \in 0..(args - 1) }
    \cup { [kind |-> "atom", a |-> atoms[i], c |-> c, index |-> (args + 3 * atoms[i]) + c] :
             i \in 1..Len(atoms), c \in 0..2 }
    \cup { [kind |-> "slot", a |-> 0, c |-> i, index |-> (nder - 9) + i] : i \in 0..8 }

\* ReferenceValuePack::updateDynamicLists: the list is emptied, filled and
\* marked complete
updateDynamicLists(args, atoms, nder) ==
  [active |-> { e.index : e \in PackEntries(args, atoms, nder) }, complete |-> TRUE]

\* the guard "if( !myvals.updateComplete() ) updateDynamicLists();" of clear,
\* scaleAllDerivatives and moveDerivatives
UpdateIfNeeded ==
  IF ~myvals.complete
    THEN updateDynamicLists(numberOfArgs, atom_indices,
                            getNumberOfDerivatives(numberOfArgs, packAtoms))
    ELSE myvals

\* MultiValue::clearAll: the derivatives are zeroed and the list deactivated
clearAll(mv) == [active |-> {}, complete |-> FALSE]

\* the active lists another MultiValue with the same number of derivatives
\* can hold: nothing, or the list of a pack with atoms of its own
OtherLists ==
  {{}} \cup { updateDynamicLists(numberOfArgs, atoms,
                                 getNumberOfDerivatives(numberOfArgs, packAtoms)).active :
                atoms \in AtomLists(packAtoms) }

PackDid(op, m, touched) ==
  [op |-> op, updated |-> ~myvals.complete /\ m.complete, wasComplete |-> myvals.complete,
   complete |-> m.complete, list |-> m.active, touched |-> touched]

\* ReferenceValuePack::clear
clear ==
  /\ \E m \in {UpdateIfNeeded} :
       /\ packLast' = PackDid("clear", m, m.active)
       /\ myvals' = clearAll(m)
  /\ UNCHANGED <<numberOfArgs, atom_indices, packAtoms>>

\* ReferenceValuePack::scaleAllDerivatives
scaleAllDerivatives ==
  /\ \E m \in {UpdateIfNeeded} :
       /\ packLast' = PackDid("scaleAllDerivatives", m, m.active)
       /\ myvals' = m
  /\ UNCHANGED <<numberOfArgs, atom_indices, packAtoms>>

\* ReferenceValuePack::copyScaledDerivatives: a derivative is added at every
\* active index of tvals; the list of myvals is neither updated nor read
copyScaledDerivatives ==
  /\ \E tvals \in OtherLists :
       /\ packLast' = PackDid("copyScaledDerivatives", myvals, tvals)
       /\ myvals' = myvals
  /\ UNCHANGED <<numberOfArgs, atom_indices, packAtoms>>

\* ReferenceValuePack::moveDerivatives
moveDerivatives ==
  /\ \E m \in {UpdateIfNeeded} :
       /\ packLast' = PackDid("moveDerivatives", m, m.active)
       /\ myvals' = m
  /\ UNCHANGED <<numberOfArgs, atom_indices, packAtoms>>

\* a pack as its constructor and setAtomIndex leave it, on a MultiValue whose
\* list has not been updated
InitPack ==
  /\ packAtoms \in 1..MaxPackAtoms
  /\ numberOfArgs \in 0..MaxPackArgs
  /\ atom_indices \in {<< >>} \cup AtomLists(packAtoms)
  /\ myvals = [active |-> {}, complete |-> FALSE]
  /\ packLast = [op |-> "none", updated |-> FALSE, wasComplete |-> FALSE,
                 complete |-> FALSE, list |-> {}, touched |-> {}]

InitReferenceValuePack == InitPack /\ InitMain /\ IdleContour /\ IdleAtoms /\ IdleFilter /\ IdleLoop /\ IdleCtor /\ IdleSecondaryStructure /\ IdleNumerics /\ IdleCheckpoint /\ IdleCmd /\ IdleRun /\ IdleForward /\ IdleEnergy /\ IdleLabel /\ IdleExpansion

NextPack ==
  \/ (clear /\ UNCHANGED <<mainVars, contourVars, atomVars, filterVars, loopVars, ctorVars, ssVars, numVars, ckptVars, apiVars, runVars, fwdVars, energyVars, labelVars, expandVars>>)
  \/ (scaleAllDerivatives /\ UNCHANGED <<mainVars, contourVars, atomVars, filterVars, loopVars, ctorVars, ssVars, numVars, ckptVars, apiVars, runVars, fwdVars, energyVars, labelVars, expandVars>>)
  \/ (copyScaledDerivatives /\ UNCHANGED <<mainVars, contourVars, atomVars, filterVars, loopVars, ctorVars, ssVars, numVars, ckptVars, apiVars, runVars, fwdVars, energyVars, labelVars, expandVars>>)
  \/ (moveDerivatives /\ UNCHANGED <<mainVars, contourVars, atomVars, filterVars, loopVars, ctorVars, ssVars, numVars, ckptVars, apiVars, runVars, fwdVars, energyVars, labelVars, expandVars>>)

SpecPack == InitReferenceValuePack /\ [][NextPack]_vars

(***************************************************************************)
(* Properties of ReferenceValuePack                                        *)
(***************************************************************************)

\* C7: once the active-index list has been marked update-complete no index
\* is added until the record is cleared: updateDynamicLists runs only while
\* updateComplete() is false and ends with completeUpdate(), and clear,
\* scaleAllDerivatives, copyScaledDerivatives and moveDerivatives touch only
\* indices that are in the completed active list.
C7_CompletedListIsFrozen ==
  /\ packLast.updated => (~packLast.wasComplete /\ packLast.complete)
  /\ (packLast.op # "none" /\ packLast.complete) => packLast.touched \subseteq packLast.list

\* a completed list has been written through and then a derivative was
\* copied in at an index that is not in it
C7_Violation ==
  /\ packLast.op = "copyScaledDerivatives"
  /\ packLast.wasComplete
  /\ ~(packLast.touched \subseteq packLast.list)

(***************************************************************************)
(* One task of an atomistic action: the derivative indices it registers or *)
(* writes (multicolvar/MultiColvarBase.cpp, adjmat/AdjacencyMatrixBase.h,  *)
(* secondarystructure/SecondaryStructureRMSD.cpp).                         *)
(***************************************************************************)

\* atom blocks of a multicolvar in the model
MaxBlocks == 2

\* MultiColvarBase::performTask, lines 382-395: the indices of the atoms of
\* the task; blocks[i] is ablocks[i-1][task_index], and an atom that an
\* earlier block already holds is passed over
AtomUpdates(blocks) ==
  { [kind |-> "atom", a |-> blocks[i], c |-> c, index |-> (3 * blocks[i]) + c] :
      i \in { k \in 1..Len(blocks) : \A j \in 1..(k - 1) : blocks[j] # blocks[k] },
      c \in 0..2 }

\* MultiColvarBase::performTask, lines 396-399: the nine indices after
\* nvir = 3*getNumberOfAtoms()
VirialUpdates(n) ==
  { [kind |-> "slot", a |-> 0, c |-> i, index |-> (3 * n) + i] : i \in 0..8 }

\* MultiColvarBase::performTask, the update of the active derivatives
MultiColvarPerformTask ==
  /\ \E nb \in 1..MaxBlocks, skip \in BOOLEAN :
       \E blocks \in [1..nb -> 0..(natoms - 1)] :
         /\ task' = [name |-> "MultiColvarBase::performTask", skipped |-> skip,
                     atoms |-> blocks]
         /\ derivs' = IF skip THEN {} ELSE AtomUpdates(blocks) \cup VirialUpdates(natoms)
  /\ UNCHANGED natoms

\* AdjacencyMatrixBase::addAtomDerivatives: indno selects the task index or
\* the second task index of myvals, both positions in the list of atoms
addAtomDerivatives ==
  /\ \E indno \in 0..1, skip \in BOOLEAN :
       \E getTaskIndex \in 0..(natoms - 1), getSecondTaskIndex \in 0..(natoms - 1) :
         \E index \in {IF indno = 1 THEN getSecondTaskIndex ELSE getTaskIndex} :
           /\ task' = [name |-> "addAtomDerivatives", skipped |-> skip,
                       atoms |-> <<indno, getTaskIndex, getSecondTaskIndex>>]
           /\ derivs' = IF skip THEN {}
                        ELSE { [kind |-> "atom", a |-> index, c |-> c,
                                index |-> (3 * index) + c] : c \in 0..2 }
  /\ UNCHANGED natoms

\* mutant of nbase: the number of atoms is not multiplied by three
nbaseMutant(n) == n

\* AdjacencyMatrixBase::addBoxDerivatives: nbase = 3*getNumberOfAtoms()
nbase(n) == 3 * n

\* AdjacencyMatrixBase::addBoxDerivatives: the elements of vir in the order
\* in which they are added at nbase+0 .. nbase+8
VirElements ==
  << <<0, 0>>, <<0, 1>>, <<0, 2>>, <<1, 0>>, <<1, 1>>, <<1, 2>>, <<2, 0>>, <<2, 1>>, <<2, 2>> >>

\* AdjacencyMatrixBase::addBoxDerivatives
addBoxDerivatives ==
  /\ \E skip \in BOOLEAN :
       /\ task' = [name |-> "addBoxDerivatives", skipped |-> skip, atoms |-> << >>]
       /\ derivs' = IF skip THEN {}
                    ELSE { [kind |-> "box", a |-> VirElements[k][1], c |-> VirElements[k][2],
                            index |-> nbase(natoms) + (k - 1)] : k \in 1..Len(VirElements) }
  /\ UNCHANGED natoms

\* SecondaryStructureRMSD::performTask: myvals gets 3*getNumberOfAtoms()+9
\* derivatives, and the pack without arguments that is built on it holds the
\* atoms of the segment; the pack's list is what the task registers
SecondaryStructurePerformTask ==
  /\ \E atoms \in AtomLists(natoms) :
       /\ task' = [name |-> "SecondaryStructureRMSD::performTask", skipped |-> FALSE,
                   atoms |-> atoms]
       /\ derivs' = PackEntries(0, atoms, getNumberOfDerivatives(0, natoms))
  /\ UNCHANGED natoms

InitAtoms ==
  /\ natoms \in 1..MaxAtoms
  /\ task = [name |-> "none", skipped |-> FALSE, atoms |-> << >>]
  /\ derivs = {}

InitAtomisticTask == InitAtoms /\ InitMain /\ IdleContour /\ IdlePack /\ IdleFilter /\ IdleLoop /\ IdleCtor /\ IdleSecondaryStructure /\ IdleNumerics /\ IdleCheckpoint /\ IdleCmd /\ IdleRun /\ IdleForward /\ IdleEnergy /\ IdleLabel /\ IdleExpansion

NextAtoms ==
  \/ (MultiColvarPerformTask /\ UNCHANGED <<mainVars, contourVars, packVars, filterVars, loopVars, ctorVars, ssVars, numVars, ckptVars, apiVars, runVars, fwdVars, energyVars, labelVars, expandVars>>)
  \/ (addAtomDerivatives /\ UNCHANGED <<mainVars, contourVars, packVars, filterVars, loopVars, ctorVars, ssVars, numVars, ckptVars, apiVars, runVars, fwdVars, energyVars, labelVars, expandVars>>)
  \/ (addBoxDerivatives /\ UNCHANGED <<mainVars, contourVars, packVars, filterVars, loopVars, ctorVars, ssVars, numVars, ckptVars, apiVars, runVars, fwdVars, energyVars, labelVars, expandVars>>)
  \/ (SecondaryStructurePerformTask /\ UNCHANGED <<mainVars, contourVars, packVars, filterVars, loopVars, ctorVars, ssVars, numVars, ckptVars, apiVars, runVars, fwdVars, energyVars, labelVars, expandVars>>)

SpecAtoms == InitAtomisticTask /\ [][NextAtoms]_vars

(***************************************************************************)
(* Properties of the atomistic derivative indices                          *)
(***************************************************************************)

\* C6: every derivative index an atomistic task registers or writes lies in
\* [0, 3N+9) for N requested atoms: coordinate c of atom a is at 3a+c in
\* [0, 3N), box element (i,j) is at 3N+3i+j in [3N, 3N+9), and no atom index
\* falls in the box range.
C6_IndicesInRange ==
  \A w \in derivs :
    /\ 0 <= w.index /\ w.index < (3 * natoms) + 9
    /\ w.kind = "atom" => (w.index = (3 * w.a) + w.c /\ w.index < 3 * natoms)
    /\ w.kind = "box" => (w.index = ((3 * natoms) + (3 * w.a)) + w.c /\ w.index >= 3 * natoms)
    /\ w.kind = "slot" => w.index >= 3 * natoms
    /\ w.kind \in {"atom", "box", "slot"}

\* a task of a multicolvar with two atoms has registered the last coordinate
\* of the last atom and the last of the nine box indices
C6_Witness ==
  /\ natoms = 2
  /\ task.name = "MultiColvarBase::performTask"
  /\ \E w \in derivs : w.kind = "atom" /\ w.a = 1 /\ w.c = 2 /\ w.index = 5
  /\ \E w \in derivs : w.kind = "slot" /\ w.index = 14

(***************************************************************************)
(* Task-list filtering: SecondaryStructureRMSD::buildCurrentTaskList,      *)
(* ClusterWeights::buildCurrentTaskList and FindContour's                  *)
(* setupCurrentTaskList, with the pass of ActionWithValue::runAllTasks     *)
(* that uses the flags.  Tasks are numbered from 0.                         *)
(***************************************************************************)

\* tasks of the filtering action
MaxTasks == 2
\* builds of the task list without a reset in between
MaxBuilds == 2

\* the values of STRANDS_CUTOFF; 0 is what parse leaves when it is absent
Cutoffs == {0, 1, 2, -2}
\* the squared distances between the marker atoms
Distances2 == {0, 1, 2, 4, 5}
\* the distances SingleDomainRMSD::calculate returns
RmsdValues == {0, 2}

\* the tasks of the action
FullTaskList == DOMAIN tflags

\* the tasks that are flagged
Flagged(flags) == { i \in DOMAIN flags : flags[i] = 1 }

\* line 190 with a cutoff that takes in the distance equal to it
StrandsCloseMutant(d2) == d2 <= s_cutoff2

\* line 190: if( distance.modulo2()<s_cutoff2 )
StrandsClose(d2) == d2 < s_cutoff2

\* the flag of a task that passes being switched rather than set
SetFlagMutant(flag, pass) == IF pass THEN 1 - flag ELSE flag

\* "if( ... ) tflags[i]=1": the flag of a task that does not pass is left
SetFlag(flag, pass) == IF pass THEN 1 ELSE flag

\* SecondaryStructureRMSD::buildCurrentTaskList on the flags and the labels
\* of st
SecondaryStructureBuildCurrentTaskList(st) ==
  IF s_cutoff2 > 0
    THEN [actionsThatSelectTasks |-> Append(st.actionsThatSelectTasks, "SecondaryStructureRMSD"),
          tflags |-> [i \in DOMAIN st.tflags |->
                        SetFlag(st.tflags[i], StrandsClose(modulo2[i]))]]
    ELSE st

\* ClusterWeights::buildCurrentTaskList; the value of the argument has been
\* set, and a value within epsilon of clustr is the integer clustr
ClusterWeightsBuildCurrentTaskList(st) ==
  [actionsThatSelectTasks |-> Append(st.actionsThatSelectTasks, "ClusterWeights"),
   tflags |-> [i \in DOMAIN st.tflags |-> SetFlag(st.tflags[i], clusterOf[i] = clustr)]]

buildCurrentTaskList(st) ==
  IF taskKind = "SecondaryStructureRMSD"
    THEN SecondaryStructureBuildCurrentTaskList(st)
    ELSE ClusterWeightsBuildCurrentTaskList(st)

\* SecondaryStructureRMSD::getAtomIndex: atom i of the window of task current;
\* the windows slide along the backbone by one atom
getAtomIndex(current, i) == current + i

\* the atoms the action requested: the windows have two atoms
RequestedAtoms == Cardinality(FullTaskList) + 1

\* the task that takes the atoms of the window of its rank among the flagged
\* tasks
SecondaryStructureTaskMutant(flags, current) ==
  PackEntries(0, [i \in 1..2 |->
                    getAtomIndex(Cardinality({ j \in Flagged(flags) : j < current }), i - 1)],
              getNumberOfDerivatives(0, RequestedAtoms))

\* SecondaryStructureRMSD::performTask: the derivative indices of the pack of
\* task current.  flags are the flags of the pass, which the task is not given
SecondaryStructureTask(flags, current) ==
  PackEntries(0, [i \in 1..2 |-> getAtomIndex(current, i - 1)],
              getNumberOfDerivatives(0, RequestedAtoms))

\* ActionWithValue::runAllTasks: the flags are zeroed, the action builds its
\* task list, every task is active when no action selects tasks and the
\* flagged ones otherwise; the active tasks are performed and the others
\* leave zero.  v are the distances the references return.
runAllTasks(v) ==
  With(buildCurrentTaskList([actionsThatSelectTasks |-> << >>,
                             tflags |-> [i \in FullTaskList |-> 0]]),
       LAMBDA st :
         With(IF st.actionsThatSelectTasks = << >> THEN FullTaskList ELSE Flagged(st.tflags),
              LAMBDA todo :
                [st |-> st,
                 run |-> [ran |-> TRUE,
                          performed |-> todo,
                          values |-> [i \in FullTaskList |->
                                        IF i \notin todo THEN 0
                                        ELSE IF taskKind = "ClusterWeights" THEN 1 ELSE v[i]],
                          derivs |-> [i \in FullTaskList |->
                                        IF i \in todo /\ taskKind = "SecondaryStructureRMSD"
                                          THEN SecondaryStructureTask(st.tflags, i)
                                          ELSE {}]]]))

\* what the active tasks are: the flagged tasks, or for FindContour the tasks
\* of the current task list
ActiveTasks ==
  IF taskKind = "FindContour" THEN Range(taskList) ELSE Flagged(tflags)

\* the action builds its task list on the flags it is handed
BuildCurrentTaskList ==
  /\ taskKind \in {"SecondaryStructureRMSD", "ClusterWeights"}
  /\ builds < MaxBuilds
  /\ \E st \in {buildCurrentTaskList([actionsThatSelectTasks |-> actionsThatSelectTasks,
                                      tflags |-> tflags])} :
       /\ tflags' = st.tflags
       /\ actionsThatSelectTasks' = st.actionsThatSelectTasks
       /\ firstBuild' = IF builds = 0 THEN Flagged(st.tflags) ELSE firstBuild
  /\ builds' = builds + 1
  /\ UNCHANGED <<taskKind, s_cutoff2, modulo2, clustr, clusterOf, lastRun, taskList>>

\* FindContour::setupCurrentTaskList on the current task list
FindContourBuild ==
  /\ taskKind = "FindContour"
  /\ builds < MaxBuilds
  /\ \E tasks \in {setupCurrentTaskList(taskList)} :
       /\ taskList' = tasks
       /\ firstBuild' = IF builds = 0 THEN Range(tasks) ELSE firstBuild
  /\ builds' = builds + 1
  /\ UNCHANGED <<taskKind, s_cutoff2, modulo2, clustr, clusterOf, lastRun, tflags,
                 actionsThatSelectTasks>>

\* SecondaryStructureRMSD::calculate and ClusterWeights::calculate
RunAllTasks ==
  /\ taskKind \in {"SecondaryStructureRMSD", "ClusterWeights"}
  /\ \E v \in [FullTaskList -> RmsdValues] :
       \E r \in {runAllTasks(v)} :
         /\ tflags' = r.st.tflags
         /\ actionsThatSelectTasks' = r.st.actionsThatSelectTasks
         /\ lastRun' = r.run
         /\ firstBuild' = Flagged(r.st.tflags)
  /\ builds' = 1
  /\ UNCHANGED <<taskKind, s_cutoff2, modulo2, clustr, clusterOf, taskList>>

\* the flags and the current task list are emptied for the next pass
ResetTaskList ==
  /\ builds > 0
  /\ tflags' = [i \in FullTaskList |-> 0]
  /\ actionsThatSelectTasks' = << >>
  /\ taskList' = << >>
  /\ builds' = 0
  /\ firstBuild' = {}
  /\ UNCHANGED <<taskKind, s_cutoff2, modulo2, clustr, clusterOf, lastRun>>

NotRun == [ran |-> FALSE, performed |-> {}, values |-> << >>, derivs |-> << >>]

\* SecondaryStructureRMSD after its constructor: s_cutoff2 is the square of
\* STRANDS_CUTOFF
InitSecondaryStructure ==
  /\ taskKind = "SecondaryStructureRMSD"
  /\ \E s_cutoff \in Cutoffs : s_cutoff2 = s_cutoff * s_cutoff
  /\ \E n \in 1..MaxTasks :
       /\ modulo2 \in [0..(n - 1) -> Distances2]
       /\ tflags = [i \in 0..(n - 1) |-> 0]
  /\ clustr = 1 /\ clusterOf = << >>
  /\ IdleContour

\* ClusterWeights after its constructor: clustr is at least 1 and at most the
\* length of the argument
InitClusterWeights ==
  /\ taskKind = "ClusterWeights"
  /\ \E n \in 1..MaxTasks :
       /\ clusterOf \in [0..(n - 1) -> 1..n]
       /\ clustr \in 1..n
       /\ tflags = [i \in 0..(n - 1) |-> 0]
  /\ s_cutoff2 = 0 /\ modulo2 = << >>
  /\ IdleContour

InitFilterContour ==
  /\ taskKind = "FindContour"
  /\ InitContour
  /\ s_cutoff2 = 0 /\ modulo2 = << >> /\ clustr = 1 /\ clusterOf = << >>
  /\ tflags = << >>

InitFilter ==
  /\ InitSecondaryStructure \/ InitClusterWeights \/ InitFilterContour
  /\ actionsThatSelectTasks = << >>
  /\ lastRun = NotRun
  /\ builds = 0
  /\ firstBuild = {}
  /\ InitMain /\ IdleAtoms /\ IdlePack /\ IdleLoop /\ IdleCtor /\ IdleSecondaryStructure /\ IdleNumerics /\ IdleCheckpoint /\ IdleCmd /\ IdleRun /\ IdleForward /\ IdleEnergy /\ IdleLabel /\ IdleExpansion

NextFilter ==
  \/ (BuildCurrentTaskList /\ UNCHANGED <<mainVars, nbin, pbc, grid, contour, atomVars, packVars, loopVars, ctorVars, ctorVars, ssVars, numVars, ckptVars, apiVars, runVars, fwdVars, energyVars, labelVars, expandVars>>)
  \/ (FindContourBuild /\ UNCHANGED <<mainVars, nbin, pbc, grid, contour, atomVars, packVars, loopVars, ctorVars, ctorVars, ssVars, numVars, ckptVars, apiVars, runVars, fwdVars, energyVars, labelVars, expandVars>>)
  \/ (RunAllTasks /\ UNCHANGED <<mainVars, nbin, pbc, grid, contour, atomVars, packVars, loopVars, ctorVars, ctorVars, ssVars, numVars, ckptVars, apiVars, runVars, fwdVars, energyVars, labelVars, expandVars>>)
  \/ (ResetTaskList /\ UNCHANGED <<mainVars, nbin, pbc, grid, contour, atomVars, packVars, loopVars, ctorVars, ctorVars, ssVars, numVars, ckptVars, apiVars, runVars, fwdVars, energyVars, labelVars, expandVars>>)

SpecFilter == InitFilter /\ [][NextFilter]_vars

(***************************************************************************)
(* Properties of the task-list filters                                     *)
(***************************************************************************)

\* C11: with STRANDS_CUTOFF set (s_cutoff2 > 0), buildCurrentTaskList flags
\* task i if and only if the squared distance between its marker atoms is
\* strictly less than the squared cutoff; a window that fails is not among
\* the tasks performed, has no derivatives and leaves zero in the output.
C11_FilterIsStrictCutoff ==
  (taskKind = "SecondaryStructureRMSD" /\ s_cutoff2 > 0) =>
    /\ builds >= 1 =>
         /\ actionsThatSelectTasks # << >>
         /\ \A i \in FullTaskList : tflags[i] = 1 <=> modulo2[i] < s_cutoff2
    /\ lastRun.ran =>
         \A i \in FullTaskList :
           /\ i \in lastRun.performed <=> modulo2[i] < s_cutoff2
           /\ ~(modulo2[i] < s_cutoff2) => (lastRun.values[i] = 0 /\ lastRun.derivs[i] = {})

\* a pass with cutoff 2 has performed the window at squared distance 2 and
\* left out the window at squared distance 4
C11_Witness ==
  /\ taskKind = "SecondaryStructureRMSD" /\ s_cutoff2 = 4 /\ lastRun.ran /\ builds = 1
  /\ DOMAIN tflags = 0..1
  /\ modulo2[0] = 4 /\ tflags[0] = 0 /\ 0 \notin lastRun.performed /\ lastRun.values[0] = 0
  /\ modulo2[1] = 2 /\ tflags[1] = 1 /\ 1 \in lastRun.performed /\ lastRun.values[1] = 2

\* C12: building the task list again on the same inputs gives the set of
\* active tasks that the first build gave (FindContour, SecondaryStructureRMSD
\* and ClusterWeights).
C12_FilterIsIdempotent == builds >= 1 => ActiveTasks = firstBuild

\* the list has been built twice and some tasks, not all, are active
C12_Witness ==
  /\ builds = 2
  /\ taskKind = "SecondaryStructureRMSD"
  /\ ActiveTasks # {} /\ ActiveTasks # FullTaskList

\* the indices of the window of task t in the numbering of the action: three
\* for each of its atoms and nine after those of all the atoms
WindowIndices(t) ==
  { (3 * (t + i)) + c : i \in 0..1, c \in 0..2 } \cup { (3 * RequestedAtoms) + k : k \in 0..8 }

\* C13: buildCurrentTaskList of SecondaryStructureRMSD and of ClusterWeights
\* changes the task flags and the list of task-selecting actions only, and a
\* task that is performed has the derivative indices of its own window,
\* whichever other tasks were filtered out.
C13_FilterKeepsNumbering ==
  /\ [][BuildCurrentTaskList =>
          UNCHANGED <<taskKind, s_cutoff2, modulo2, clustr, clusterOf, lastRun,
                      mainVars, contourVars, atomVars, packVars, ssVars, numVars, ckptVars, apiVars, runVars, fwdVars, energyVars, labelVars, expandVars>>]_vars
  /\ [](lastRun.ran =>
          \A t \in lastRun.performed :
            /\ taskKind = "SecondaryStructureRMSD" =>
                 { w.index : w \in lastRun.derivs[t] } = WindowIndices(t)
            /\ taskKind = "ClusterWeights" => lastRun.derivs[t] = {})

\* the first window was filtered out and the second was performed
C13_Witness ==
  /\ taskKind = "SecondaryStructureRMSD" /\ lastRun.ran
  /\ lastRun.performed = {1}
  /\ { w.index : w \in lastRun.derivs[1] } = {3, 4, 5, 6, 7, 8} \cup 9..17

(***************************************************************************)
(* The values and the derivatives of a task of FunctionOfVector<T>, in a   *)
(* chain and out of one                                                    *)
(***************************************************************************)
\* the longest input of this part
MaxChainActions == 3

\* the argument lists of a function with up to three numbered ARG keywords
ChainArgLists(labels) ==
  ArgLists(labels) \cup { <<u, v, w>> : u, v, w \in labels }

\* the input lines of this part: input values, atomistic actions and
\* functions with numbered ARG keywords
ChainInputLines(labels) ==
  {[kind |-> "PUT", rank |-> 0, ntasks |-> 0, constant |-> FALSE, arg |-> << >>,
    allow_streams |-> FALSE]}
  \cup {[kind |-> "PUT", rank |-> 1, ntasks |-> nt, constant |-> TRUE, arg |-> << >>,
         allow_streams |-> FALSE] : nt \in TaskCounts}
  \cup {[kind |-> "COLVAR", rank |-> 1, ntasks |-> nt, constant |-> FALSE, arg |-> << >>,
         allow_streams |-> FALSE] : nt \in TaskCounts}
  \cup {[kind |-> "FUNCTION", rank |-> 0, ntasks |-> 0, constant |-> FALSE, arg |-> arg,
         allow_streams |-> TRUE] : arg \in ChainArgLists(labels)}

\* cmd("readInputLine") for the input lines of this part
ReadChainInputLine ==
  /\ Len(actionSet) < MaxChainActions
  /\ \E line \in ChainInputLines(ValueLabels(actionSet)) :
       readInputWords(line.kind, line.rank, line.ntasks, line.constant, line.arg,
                      line.allow_streams)

NextChain == ReadChainInputLine /\ UNCHANGED <<contourVars, atomVars, packVars, filterVars, loopVars, ctorVars, ssVars, numVars, ckptVars, apiVars, runVars, fwdVars, energyVars, labelVars, expandVars>>

SpecChain == Init /\ [][NextChain]_vars

\* element t of the input value v as the MD code has set it
InputValue(v, t) == v + t + 1

\* the value of task t of the atomistic action a, a function of the
\* positions of its atoms
ColvarValue(a, t) == (2 * a) + t

\* the derivative of the value of a task of an atomistic action with respect
\* to the coordinate with the index kind
ColvarDerivative(kind) == kind + 1

\* T::calc for a linear combination with the coefficient j for argument j:
\* the value
calcValue(args) == SumSeq([j \in 1..Len(args) |-> j * args[j]])

\* T::calc for that combination: derivatives(0,j)
calcDerivative(j) == j

RECURSIVE TaskValue(_, _, _)
\* lines 183-188: the arguments task t reads when self is in a chain, from
\* the stored scalar, from the stream or from the stored vector
ChainArguments(W, self, t) ==
  [i \in 1..Len(W[self].arguments) |->
     IF W[W[self].arguments[i]].rank = 0 THEN TaskValue(W, W[self].arguments[i], 0)
     ELSE TaskValue(W, W[self].arguments[i], t)]

\* lines 190-193: the arguments task current reads when self is not in a
\* chain
StoredArguments(W, self, current) ==
  [i \in 1..Len(W[self].arguments) |->
     IF W[W[self].arguments[i]].rank = 1 THEN TaskValue(W, W[self].arguments[i], current)
     ELSE TaskValue(W, W[self].arguments[i], 0)]

\* lines 196-199: the value task t adds for the output of the action v; for
\* an input value and an atomistic action the value they hold
TaskValue(W, v, t) ==
  IF isActionForInterface(W[v]) THEN InputValue(v, t)
  ELSE IF isActionAtomistic(W[v]) THEN ColvarValue(v, t)
  ELSE IF actionInChain(W, v) THEN calcValue(ChainArguments(W, v, t))
  ELSE calcValue(StoredArguments(W, v, t))

RECURSIVE TaskDerivative(_, _, _, _)

\* ActionWithArguments::getArgumentPositionInStream for argument j of self,
\* reached in the loop of line 208 after the arguments before j: the
\* derivative with the index kind at the position it returns.  Every call for
\* a stored argument adds 1 at the index of the task to the position of the
\* stored value.
StreamDerivative(W, self, j, t, kind) ==
  IF self \in W[W[self].arguments[j]].store_data_for
  THEN Cardinality({ k \in 1..j : W[self].arguments[k] = W[self].arguments[j] })
  ELSE TaskDerivative(W, W[self].arguments[j], t, kind)

\* lines 207-216: the derivative with the index idx that task t adds for the
\* output of self when self is in a chain
ChainDerivative(W, self, t, idx) ==
  SumSeq([j \in 1..Len(W[self].arguments) |->
            IF (idx - W[self].arg_deriv_starts[j]) \in ArgumentActiveIndices(W, self, j, t)
            THEN calcDerivative(j)
                   * StreamDerivative(W, self, j, t, idx - W[self].arg_deriv_starts[j])
            ELSE 0])

\* lines 232-249: the derivative with the index idx that task current adds
\* for the output of self when self is not in a chain
LocalDerivative(W, self, current, idx) ==
  SumSeq([j \in 1..Len(W[self].arguments) |->
            IF IndexOfArgument(W, self, j, current) = idx THEN calcDerivative(j) ELSE 0])

\* the derivative with the index idx of the value of task t of the action v
\* in the task record
TaskDerivative(W, v, t, idx) ==
  IF isActionAtomistic(W[v])
  THEN IF idx \in MultiColvarIndices(W, v, t) THEN ColvarDerivative(idx) ELSE 0
  ELSE IF W[v].kind # "FUNCTION" THEN 0
  ELSE IF actionInChain(W, v) /\ W[v].arg_deriv_starts # << >>
  THEN ChainDerivative(W, v, t, idx)
  ELSE LocalDerivative(W, v, t, idx)

\* the derivative of argument j of self with respect to the input with the
\* index kind among the inputs of the argument: 1 for the element of a stored
\* value that the task reads, the derivative in the task record for a value
\* that is passed in the stream
ArgumentDerivative(W, self, j, t, kind) ==
  IF self \in W[W[self].arguments[j]].store_data_for THEN 1
  ELSE TaskDerivative(W, W[self].arguments[j], t, kind)

\* the chain rule applied to the derivatives that self computes out of a
\* chain, with respect to its arguments: the derivative of the output of
\* task t with respect to the root input that has the index idx
StoredRootDerivative(W, self, t, idx) ==
  SumSeq([j \in 1..Len(W[self].arguments) |->
            IF (idx - W[self].arg_deriv_starts[j]) \in ArgumentActiveIndices(W, self, j, t)
            THEN LocalDerivative(W, self, t, IndexOfArgument(W, self, j, t))
                   * ArgumentDerivative(W, self, j, t, idx - W[self].arg_deriv_starts[j])
            ELSE 0])

\* the functions of the input that run in a chain and propagate derivatives
ChainedFunctions(W) ==
  { p \in 1..Len(W) : W[p].kind = "FUNCTION" /\ W[p].rank = 1
                      /\ actionInChain(W, p) /\ W[p].arg_deriv_starts # << >> }

\* the indices a task of self can add a derivative for
RootIndices(W, self, t) ==
  UNION { { W[self].arg_deriv_starts[j] + kind :
              kind \in ArgumentActiveIndices(W, self, j, t) } :
          j \in 1..Len(W[self].arguments) }

\* C14: a task of a FunctionOfVector that runs in a chain has the value and
\* the derivatives with respect to the root inputs that the same task has
\* when the arguments are read from stored values and the derivatives with
\* respect to the arguments are composed with those of the arguments.
C14_ChainMatchesStored ==
  \A self \in ChainedFunctions(actionSet) :
    \A t \in 0..(actionSet[self].ntasks - 1) :
      /\ calcValue(ChainArguments(actionSet, self, t))
           = calcValue(StoredArguments(actionSet, self, t))
      /\ \A idx \in RootIndices(actionSet, self, t) :
           ChainDerivative(actionSet, self, t, idx)
             = StoredRootDerivative(actionSet, self, t, idx)

(***************************************************************************)
(* The loop over the tasks of one action: performTask of the tasks, each   *)
(* with its own MultiValue, in any order and interleaved                   *)
(***************************************************************************)
\* the number of tasks of the action
LoopTasks == 3

\* the number of atoms, of stored values and of grid points the tasks read
DataLength == 2 * LoopTasks

\* the values an atom's position, a stored value or a grid point can have
DataValues == {1, 2}

\* the classes whose performTask is modelled
LoopActions == {"MultiColvarBase", "SecondaryStructureRMSD", "FunctionOfVector", "FindContour"}

\* MultiColvarBase::ablocks for an action with two atoms for each task
ablocks(i, task_index) == (2 * task_index) + i

\* what performTask reads for task current: the positions of the atoms
\* ablocks[i][current] (MultiColvarBase), those of the atoms
\* getAtomIndex(current,i) of the window (SecondaryStructureRMSD), element
\* current of the vector and the scalar that follows it (FunctionOfVector,
\* not in a chain), the grid point current/rank and the next one along the
\* direction current%rank for a grid of rank 1 (FindContour)
InputsOfTask(action, current) ==
  IF action = "MultiColvarBase" THEN <<ablocks(0, current), ablocks(1, current)>>
  ELSE IF action = "SecondaryStructureRMSD"
  THEN <<getAtomIndex(current, 0), getAtomIndex(current, 1)>>
  ELSE IF action = "FunctionOfVector" THEN <<current, LoopTasks>>
  ELSE <<current \div 1, (current \div 1) + 1>>

\* a task that reads what another task has written instead of its input
TaskInputMutant(t, i) ==
  IF pc[(t + 1) % LoopTasks] = "done" THEN records[(t + 1) % LoopTasks].value
  ELSE storedData[i + 1]

\* getPosition(i), Value::get(i): the input with the index i as task t reads it
TaskInput(t, i) == storedData[i + 1]

\* the derivative indices a task marks as active in its MultiValue: three
\* for each of its atoms and nine for the box after those of all the atoms
\* (MultiColvarBase and, through the pack, SecondaryStructureRMSD), the
\* index of each argument (FunctionOfVector), none (FindContour)
LoopDerivatives(action, current) ==
  IF action \in {"MultiColvarBase", "SecondaryStructureRMSD"}
  THEN { (3 * InputsOfTask(action, current)[k]) + c : k \in 1..2, c \in 0..2 }
         \cup { (3 * DataLength) + i : i \in 0..8 }
  ELSE IF action = "FunctionOfVector" THEN {current, LoopTasks}
  ELSE {}

\* performTask, first part: task t reads its inputs into local variables
ReadInputs(t) ==
  /\ pc[t] = "start"
  /\ locals' = [locals EXCEPT ![t] =
                  [k \in 1..2 |-> TaskInput(t, InputsOfTask(loopAction, t)[k])]]
  /\ pc' = [pc EXCEPT ![t] = "read"]
  /\ UNCHANGED <<loopAction, storedData, records>>

\* performTask, second part: the value is computed from the local variables
\* and set in the MultiValue of the task; FindContour::performTask ends here
SetValue(t) ==
  /\ pc[t] = "read"
  /\ records' = [records EXCEPT ![t].value = calcValue(locals[t])]
  /\ pc' = [pc EXCEPT ![t] = IF loopAction = "FindContour" THEN "done" ELSE "value"]
  /\ UNCHANGED <<loopAction, storedData, locals>>

\* performTask, last part: the derivative indices are marked as active in
\* the MultiValue of the task
UpdateIndices(t) ==
  /\ pc[t] = "value"
  /\ records' = [records EXCEPT ![t].derivs = LoopDerivatives(loopAction, t)]
  /\ pc' = [pc EXCEPT ![t] = "done"]
  /\ UNCHANGED <<loopAction, storedData, locals>>

\* the loop over the tasks is entered with every MultiValue cleared
InitLoop ==
  /\ loopAction \in LoopActions
  /\ storedData \in [1..DataLength -> DataValues]
  /\ pc = [t \in 0..(LoopTasks - 1) |-> "start"]
  /\ locals = [t \in 0..(LoopTasks - 1) |-> << >>]
  /\ records = [t \in 0..(LoopTasks - 1) |-> [value |-> 0, derivs |-> {}]]

InitTaskLoop ==
  InitLoop /\ InitMain /\ IdleContour /\ IdleAtoms /\ IdlePack /\ IdleFilter /\ IdleCtor /\ IdleSecondaryStructure /\ IdleNumerics /\ IdleCheckpoint /\ IdleCmd /\ IdleRun /\ IdleForward /\ IdleEnergy /\ IdleLabel /\ IdleExpansion

NextLoop ==
  \/ \E t \in 0..(LoopTasks - 1) :
       ReadInputs(t) /\ UNCHANGED <<mainVars, contourVars, atomVars, packVars, filterVars, ctorVars, ssVars, numVars, ckptVars, apiVars, runVars, fwdVars, energyVars, labelVars, expandVars>>
  \/ \E t \in 0..(LoopTasks - 1) :
       SetValue(t) /\ UNCHANGED <<mainVars, contourVars, atomVars, packVars, filterVars, ctorVars, ssVars, numVars, ckptVars, apiVars, runVars, fwdVars, energyVars, labelVars, expandVars>>
  \/ \E t \in 0..(LoopTasks - 1) :
       UpdateIndices(t) /\ UNCHANGED <<mainVars, contourVars, atomVars, packVars, filterVars, ctorVars, ssVars, numVars, ckptVars, apiVars, runVars, fwdVars, energyVars, labelVars, expandVars>>

SpecLoop == InitTaskLoop /\ [][NextLoop]_vars

\* what task t leaves in its MultiValue when it is the only task that runs
TaskAlone(t) ==
  [value |-> calcValue([k \in 1..2 |-> storedData[InputsOfTask(loopAction, t)[k] + 1]]),
   derivs |-> LoopDerivatives(loopAction, t)]

\* C15: a step of performTask leaves the inputs and the local variables and
\* MultiValue of every other task as they are, and a task that has ended has
\* the value and the derivative indices it has when it runs alone, in
\* whichever order the tasks were interleaved.
C15_TasksAreIndependent ==
  /\ [][/\ storedData' = storedData
        /\ \A t \in DOMAIN pc :
             pc'[t] = pc[t] => (records'[t] = records[t] /\ locals'[t] = locals[t])]_vars
  /\ [](\A t \in DOMAIN pc : pc[t] = "done" => records[t] = TaskAlone(t))

\* the last window of a secondary structure action has ended while the first
\* has read its atoms, one of which the second window reads too, and the
\* second has not started
C15_Witness ==
  /\ loopAction = "SecondaryStructureRMSD"
  /\ pc = [t \in 0..(LoopTasks - 1) |-> IF t = 2 THEN "done" ELSE IF t = 0 THEN "read" ELSE "start"]
  /\ records[2] = TaskAlone(2)
  /\ records[2].value = 5 /\ storedData[3] = 1 /\ storedData[4] = 2

(***************************************************************************)
(* Properties of PlumedMain::prepareDependencies                           *)
(***************************************************************************)
\* the pilots that were on step in the prepareDependencies of the last command
OnStepPilots == UNION { trace[i].f : i \in { k \in 1..Len(trace) : trace[k].op = "prepareDependencies" } }

\* C16: after prepareDependencies an action is active only if it is a pilot
\* that is on step in this step or an action such a pilot depends on,
\* directly or through other actions, and PlumedMain::active is true if and
\* only if at least one pilot is on step.
C16_ActiveOnlyIfNeeded ==
  (\E i \in 1..Len(trace) : trace[i].op = "prepareDependencies") =>
    /\ \A p \in 1..Len(actionSet) :
         isActive[p] =>
           \/ p \in OnStepPilots
           \/ \E q \in OnStepPilots : checkForDependency(actionSet, q, p)
    /\ active <=> OnStepPilots # {}

\* two pilots use the first action; the third action is on step and the
\* second, a pilot too, is not
C16_Witness ==
  /\ lastCmd = "prepareCalc"
  /\ Len(actionSet) = 3 /\ pilots(actionSet) = {2, 3}
  /\ OnStepPilots = {3}
  /\ isActive = <<TRUE, FALSE, TRUE>>
  /\ active

(***************************************************************************)
(* Actions that are computed over the stream and the chains they are in    *)
(***************************************************************************)
\* the longest input of this part
MaxSetupActions == 3

\* the input lines of this part: those of the part before and input vectors
\* that the MD code sets on every step
SetupInputLines(labels) ==
  ChainInputLines(labels)
  \cup {[kind |-> "PUT", rank |-> 1, ntasks |-> nt, constant |-> FALSE, arg |-> << >>,
         allow_streams |-> FALSE] : nt \in TaskCounts}

\* cmd("readInputLine") for the input lines of this part
ReadSetupInputLine ==
  /\ Len(actionSet) < MaxSetupActions
  /\ \E line \in SetupInputLines(ValueLabels(actionSet)) :
       readInputWords(line.kind, line.rank, line.ntasks, line.constant, line.arg,
                      line.allow_streams)

NextSetup ==
  ReadSetupInputLine /\ UNCHANGED <<contourVars, atomVars, packVars, filterVars, loopVars, ctorVars, ssVars, numVars, ckptVars, apiVars, runVars, fwdVars, energyVars, labelVars, expandVars>>

SpecSetup == Init /\ [][NextSetup]_vars

\* C17: an action whose constructor has returned and that is computed over
\* the stream (done_over_stream) is in the chain of one of its arguments.
C17_StreamedActionIsInChain ==
  \A p \in 1..Len(actionSet) :
    (actionSet[p].kind = "FUNCTION" /\ actionSet[p].done_over_stream) =>
      actionInChain(actionSet, p)

(***************************************************************************)
(* The checks of the numbers and shapes of the arguments in the            *)
(* constructors of ActionWithArguments, HistogramBase and FunctionOfVector *)
(***************************************************************************)
\* the most arguments in a group and the most groups of an input line
MaxGroup == 2

\* the lengths of the vectors of this part
VectorShapes == {2, 3}

\* the values an argument can name: a scalar, vectors and time series
ShapeValues ==
  {[rank |-> 0, n |-> 1, ts |-> FALSE]}
  \cup { [rank |-> 1, n |-> n, ts |-> ts] : n \in VectorShapes, ts \in BOOLEAN }

\* the lists of one to len values
ValueLists(len) == UNION { [1..l -> ShapeValues] : l \in 1..len }

\* the numbered ARG keywords of an input line: one or two groups
ArgGroups == UNION { [1..g -> ValueLists(MaxGroup)] : g \in 1..MaxGroup }

\* the names line 2977 leaves out of the check
ExemptNames ==
  {"CONCATENATE", "MATHEVAL", "CUSTOM", "DIFFERENCE", "DOT", "TORSIONS_MATRIX", "RMSD_CALC"}

\* the names of the actions of this part
ActionNames == ExemptNames \cup {"COMBINE"}

\* lines 2970-2973: nargt, the number of values of the arguments of a group
NumberOfValues(argn) == SumSeq([j \in 1..Len(argn) |-> argn[j].n])

\* line 2977 without the names that are left out
ExemptFromCountMutant(name) == FALSE

\* line 2977: the actions whose groups are not compared
ExemptFromCount(name) == name \in ExemptNames

RECURSIVE NumberedArgLoop(_, _, _, _)
\* lines 2965-2980: the loop over the numbered ARG keywords from keyword i
\* on, narg being the number of values of the first
NumberedArgLoop(name, groups, i, narg) ==
  IF i > Len(groups) THEN "ok"
  ELSE IF i = 1 THEN NumberedArgLoop(name, groups, 2, NumberOfValues(groups[1]))
  ELSE IF narg # NumberOfValues(groups[i]) /\ ~ExemptFromCount(name)
  THEN "mismatch between number of arguments specified for different numbered ARG values"
  ELSE NumberedArgLoop(name, groups, i + 1, narg)

\* the constructor of ActionWithArguments for numbered ARG keywords, as far
\* as the call of requestArguments: "ok" or the error that ends it
ActionWithArguments(name, groups) == NumberedArgLoop(name, groups, 1, 0)

\* the constructor of HistogramBase as far as line 99, after that of
\* ActionWithArguments; arg_ends holds the ends of the groups
HistogramBase(name, groups, heights) ==
  IF ActionWithArguments(name, groups) # "ok" THEN ActionWithArguments(name, groups)
  ELSE IF \E i \in 2..Len(groups) : NumberOfValues(groups[i]) # NumberOfValues(groups[1])
  THEN "mismatch between numbers of values in input arguments"
  ELSE IF heights # << >> /\ NumberOfValues(heights) # NumberOfValues(groups[1])
  THEN "mismatch between numbers of values in input arguments and HEIGHTS"
  ELSE "ok"

RECURSIVE FinalTasksLoop(_, _, _)
\* FunctionOfVector<T>::getNumberOfFinalTasks with arguments that can be
\* time series, from argument i on: "ok" or the error that ends it
FinalTasksLoop(args, i, nelements) ==
  IF i > Len(args) THEN "ok"
  ELSE IF args[i].rank # 1 THEN FinalTasksLoop(args, i + 1, nelements)
  ELSE IF nelements = 0 THEN FinalTasksLoop(args, i + 1, args[i].n)
  ELSE IF args[i].ts /\ args[i].n < nelements THEN FinalTasksLoop(args, i + 1, 1)
  ELSE IF args[i].n # nelements THEN "all vectors input should have the same length"
  ELSE FinalTasksLoop(args, i + 1, nelements)

\* an action with numbered ARG keywords is read; its constructor runs once
ConstructActionWithArguments ==
  /\ ctor.class = "none"
  /\ \E name \in ActionNames, groups \in ArgGroups :
       ctor' = [class |-> "ActionWithArguments", name |-> name, groups |-> groups,
                heights |-> << >>, outcome |-> ActionWithArguments(name, groups)]

\* a HistogramBase with numbered ARG keywords and, possibly, HEIGHTS is read
ConstructHistogramBase ==
  /\ ctor.class = "none"
  /\ \E groups \in ArgGroups, heights \in {<< >>} \cup ValueLists(1) :
       ctor' = [class |-> "HistogramBase", name |-> "KDE", groups |-> groups,
                heights |-> heights, outcome |-> HistogramBase("KDE", groups, heights)]

\* a FunctionOfVector with the arguments of one ARG keyword is read
ConstructFunctionOfVector ==
  /\ ctor.class = "none"
  /\ \E args \in ValueLists(MaxGroup + 1) :
       ctor' = [class |-> "FunctionOfVector", name |-> "COMBINE", groups |-> <<args>>,
                heights |-> << >>, outcome |-> FinalTasksLoop(args, 1, 0)]

InitConstructors ==
  IdleCtor /\ InitMain /\ IdleContour /\ IdleAtoms /\ IdlePack /\ IdleFilter /\ IdleLoop /\ IdleSecondaryStructure /\ IdleNumerics /\ IdleCheckpoint /\ IdleCmd /\ IdleRun /\ IdleForward /\ IdleEnergy /\ IdleLabel /\ IdleExpansion

NextConstructors ==
  \/ (ConstructActionWithArguments
        /\ UNCHANGED <<mainVars, contourVars, atomVars, packVars, filterVars, loopVars, ssVars, numVars, ckptVars, apiVars, runVars, fwdVars, energyVars, labelVars, expandVars>>)
  \/ (ConstructHistogramBase
        /\ UNCHANGED <<mainVars, contourVars, atomVars, packVars, filterVars, loopVars, ssVars, numVars, ckptVars, apiVars, runVars, fwdVars, energyVars, labelVars, expandVars>>)
  \/ (ConstructFunctionOfVector
        /\ UNCHANGED <<mainVars, contourVars, atomVars, packVars, filterVars, loopVars, ssVars, numVars, ckptVars, apiVars, runVars, fwdVars, energyVars, labelVars, expandVars>>)

SpecConstructors == InitConstructors /\ [][NextConstructors]_vars

\* the numbered ARG keywords do not all name the same number of values
GroupsMismatch ==
  \E i \in 2..Len(ctor.groups) : NumberOfValues(ctor.groups[i]) # NumberOfValues(ctor.groups[1])

\* the vectors among the arguments do not all have one length
LengthsMismatch ==
  \E i, j \in 1..Len(ctor.groups[1]) :
    /\ ctor.groups[1][i].rank = 1 /\ ctor.groups[1][j].rank = 1
    /\ ctor.groups[1][i].n # ctor.groups[1][j].n

MaxChains == 2

MaxChainLength == 4

\* The number of backbone atoms one window of a structure type needs, with two
\* small stand-ins for the structure types
RequiredAtoms == {2, 3}

alignTypes == {"DRMSD", "OPTIMAL", "SIMPLE"}

\* The backbones MOLINFO can return: one length for each chain
Backbones ==
  UNION {[1..k -> 1..MaxChainLength] : k \in 1..MaxChains}

\* A setup that stops with a fatal error remembers who raised it
StopSetup(s, by, text) == [s EXCEPT !.phase = "failed", !.raisedBy = by, !.failure = text]

\* readBackboneAtoms: the length of every chain, and all the backbone atoms
\* requested in the order of the chains
readBackboneAtoms(s, backatoms) ==
  [s EXCEPT !.chain_lengths = backatoms,
            !.all_atoms = SumSeq(backatoms)]

\* addColvar: every segment must have as many atoms as the first one; the
\* segment becomes a task
addColvar(s, newatoms) ==
  IF s.phase = "failed" THEN s
  ELSE IF Len(s.colvar_atoms) > 0 /\ Len(s.colvar_atoms[1]) # Len(newatoms)
    THEN StopSetup(s, "addColvar", "colvar_atoms[0].size()==newatoms.size()")
    ELSE [s EXCEPT !.colvar_atoms = Append(@, newatoms)]

\* setSecondaryStructure: refuses natural units, then stores a reference with
\* as many atoms as the structure has
setSecondaryStructure(s, structure, naturalUnits) ==
  IF s.phase = "failed" THEN s
  ELSE IF naturalUnits
    THEN StopSetup(s, "setSecondaryStructure",
                   "cannot use this collective variable when using natural units")
    ELSE [s EXCEPT !.references = Append(@, structure)]

\* The windows of one chain: every run of n consecutive atoms of the chain,
\* the first atom of the chain being atom nprevious + 1 of all the atoms
RECURSIVE AddWindows(_, _, _, _, _)
AddWindows(s, nprevious, length, n, start) ==
  IF start + n > length THEN s
  ELSE AddWindows(addColvar(s, [k \in 1..n |-> nprevious + start + k]),
                  nprevious, length, n, start + 1)

\* The chains in turn: a chain with fewer atoms than one window needs stops the
\* setup with an error before any of its segments is added
RECURSIVE AddChains(_, _, _, _)
AddChains(s, j, nprevious, n) ==
  IF j > Len(s.chain_lengths) \/ s.phase = "failed" THEN s
  ELSE IF s.chain_lengths[j] < n
    THEN StopSetup(s, "constructor",
                   "segment of backbone defined is not long enough")
    ELSE AddChains(AddWindows(s, nprevious, s.chain_lengths[j], n, 0),
                   j + 1, nprevious + s.chain_lengths[j], n)

\* A new action, before its constructor has read anything
NewSecondaryStructure(type, n) ==
  [phase |-> "setup", alignType |-> type, required |-> n, chain_lengths |-> << >>,
   all_atoms |-> 0, colvar_atoms |-> << >>, references |-> << >>,
   raisedBy |-> "nobody", failure |-> "none", performed |-> << >>]

\* The constructor of an action for one structure type: the backbone is read,
\* the windows are added and the reference structure is set
SecondaryStructureSetup(type, n, backatoms, naturalUnits) ==
  With(setSecondaryStructure(
         AddChains(readBackboneAtoms(NewSecondaryStructure(type, n), backatoms), 1, 0, n),
         n, naturalUnits), LAMBDA s :
    IF s.phase = "failed" THEN s ELSE [s EXCEPT !.phase = "ready"])

\* The atom i of the segment of a task, and whether the segment has one
colvarAtom(s, current, i) ==
  IF i <= Len(s.colvar_atoms[current]) THEN s.colvar_atoms[current][i] ELSE 0

ReferenceAtomsMutant(s) == s.references[1] + 1

\* The number of positions a task retrieves: the atoms of the first reference
ReferenceAtoms(s) == s.references[1]

\* performTask, as far as it reads atoms: the positions of the first n atoms
\* of the segment are retrieved
RetrievePositions(s, current) ==
  With(ReferenceAtoms(s), LAMBDA n :
    [current |-> current,
     pos |-> [i \in 1..n |-> colvarAtom(s, current, i)],
     beyond |-> \E i \in 1..n : i > Len(s.colvar_atoms[current])])

\* The constructor runs once
ConstructSecondaryStructure ==
  /\ ss.phase = "none"
  /\ \E type \in alignTypes, n \in RequiredAtoms, backatoms \in Backbones,
        naturalUnits \in BOOLEAN :
       ss' = SecondaryStructureSetup(type, n, backatoms, naturalUnits)

\* calculate: all the tasks are run
CalculateSecondaryStructure ==
  /\ ss.phase \in {"ready", "run"}
  /\ ss' = [ss EXCEPT !.phase = "run",
                      !.performed = [t \in 1..Len(ss.colvar_atoms) |->
                                       RetrievePositions(ss, t)]]

InitSecondaryStructureSetup ==
  IdleSecondaryStructure /\ InitMain /\ IdleContour /\ IdleAtoms /\ IdlePack /\ IdleFilter /\ IdleLoop /\ IdleCtor /\ IdleNumerics /\ IdleCheckpoint /\ IdleCmd /\ IdleRun /\ IdleForward /\ IdleEnergy /\ IdleLabel /\ IdleExpansion

NextSecondaryStructureSetup ==
  \/ ConstructSecondaryStructure /\ UNCHANGED <<mainVars, contourVars, atomVars, packVars, filterVars, loopVars, ctorVars, numVars, ckptVars, apiVars, runVars, fwdVars, energyVars, labelVars, expandVars>>
  \/ CalculateSecondaryStructure /\ UNCHANGED <<mainVars, contourVars, atomVars, packVars, filterVars, loopVars, ctorVars, numVars, ckptVars, apiVars, runVars, fwdVars, energyVars, labelVars, expandVars>>

SpecSecondaryStructure == InitSecondaryStructureSetup /\ [][NextSecondaryStructureSetup]_vars

\* Some chain of the backbone has fewer atoms than one window needs
ShortChain ==
  /\ ss.phase # "none"
  /\ \E j \in 1..Len(ss.chain_lengths) : ss.chain_lengths[j] < ss.required

MaxDim == 2

MinEntry == 1

MaxEntry == 2

\* The elements of the matrices: -MinEntry .. MaxEntry
Entries == (0 - MinEntry)..MaxEntry

\* The symmetric square matrices, as sequences of rows
SymmetricMatrices ==
  UNION {{A \in [1..n -> [1..n -> Entries]] :
            \A i, j \in 1..n : A[i][j] = A[j][i]} : n \in 1..MaxDim}

\* The values of info that a LAPACK routine hands back when its arguments are
\* legal: 0 is success, a positive value a failure of the algorithm
Infos == {0, 1}

Abs(x) == IF x < 0 THEN 0 - x ELSE x

\* a / b, for the divisions that have an integer result
Quotient(a, b) ==
  IF (a < 0) = (b < 0) THEN Abs(a) \div Abs(b) ELSE 0 - (Abs(a) \div Abs(b))

IsExact(a, b) == Abs(a) % Abs(b) = 0

IsSquare(x) == \E r \in 0..x : r * r = x

\* sqrt, for the numbers that have an integer root
Sqrt(x) == CHOOSE r \in 0..x : r * r = x

\* sum over k < m of L(i,k)*L(j,k)*D[k], the rows of L given
RECURSIVE TermSum(_, _, _, _)
TermSum(ri, rj, D, m) ==
  IF m = 0 THEN 0 ELSE TermSum(ri, rj, D, m - 1) + (ri[m] * rj[m] * D[m])

\* L(i,j): divided by the pivot D[j], and 0 when that pivot is 0
L_ij(numerator, d) == IF d # 0 THEN Quotient(numerator, d) ELSE 0

\* The elements L(i,j), j < i, of one row of L; exact tells that every division
\* so far had an integer result
RECURSIVE choleskyRow(_, _, _, _, _, _)
choleskyRow(A, L, D, i, j, row) ==
  IF j = i THEN row
  ELSE LET numerator == A[i][j] - TermSum(row.l, L[j], D, j - 1)
       IN choleskyRow(A, L, D, i, j + 1,
                      [l |-> Append(row.l, L_ij(numerator, D[j])),
                       exact |-> row.exact /\ (D[j] # 0 => IsExact(numerator, D[j]))])

\* The rows of L and the pivots D, row after row
RECURSIVE choleskyRows(_, _, _, _, _)
choleskyRows(A, L, D, i, exact) ==
  IF i > Len(A) THEN [L |-> L, D |-> D, exact |-> exact]
  ELSE LET row == choleskyRow(A, L, D, i, 1, [l |-> << >>, exact |-> exact])
       IN choleskyRows(A, Append(L, Append(row.l, 1)),
                       Append(D, A[i][i] - TermSum(row.l, row.l, D, i - 1)),
                       i + 1, row.exact)

\* The pivot as it enters B: its root when it is positive, and 0 otherwise
PivotRoot(d) == IF d > 0 THEN Sqrt(d) ELSE 0

\* cholesky: B = L*sqrt(D); the routine returns nothing and has no way to fail
cholesky(A) ==
  LET r == choleskyRows(A, << >>, << >>, 1, TRUE)
  IN [routine |-> "cholesky", A |-> A, pivots |-> r.D, error |-> FALSE,
      B |-> [i \in 1..Len(A) |-> [j \in 1..i |-> r.L[i][j] * PivotRoot(r.D[j])]]]

\* The matrices whose decomposition has integers only
HasIntegerDecomposition(A) ==
  LET r == choleskyRows(A, << >>, << >>, 1, TRUE)
  IN r.exact /\ \A i \in 1..Len(A) : r.D[i] > 0 => IsSquare(r.D[i])

\* diagMat: the two calls of dsyevr in turn; a call that fails ends the routine
\* with its info, before the eigenvalues are written
diagMat(A, info1, info2) ==
  IF info1 # 0 THEN [returned |-> info1, written |-> FALSE]
  ELSE IF info2 # 0 THEN [returned |-> info2, written |-> FALSE]
  ELSE [returned |-> 0, written |-> TRUE]

IsSymmetric(A) == \A i, j \in 1..Len(A) : A[i][j] = A[j][i]

\* The first info of a sequence of calls that is not 0, and 0 if there is none
RECURSIVE FirstFailure(_)
FirstFailure(infos) ==
  IF infos = << >> THEN 0
  ELSE IF infos[1] # 0 THEN infos[1] ELSE FirstFailure(Tail(infos))

\* Invert: a symmetric matrix is diagonalized, and the error of diagMat is
\* returned; any other matrix goes through dgetrf and two calls of dgetri, and
\* the first info that is not 0 is returned
Invert(A, infos) ==
  IF IsSymmetric(A)
    THEN With(diagMat(A, infos[1], infos[2]), LAMBDA d :
           [returned |-> d.returned, written |-> d.returned = 0])
    ELSE [returned |-> FirstFailure(infos), written |-> FirstFailure(infos) = 0]

\* The diagonal of the cell, and the cutoff, in the same units
BoxLengths == 1..3

RascalCutoffs == {2}

\* apply of RascalSpherical: nothing is done when no forces were added; a cell
\* smaller than the cutoff in some direction is an error; otherwise the forces
\* are set on the atoms
RascalSphericalApply(forcesWereAdded, box, cutoff) ==
  IF ~forcesWereAdded THEN [error |-> "none", forcesSet |-> FALSE]
  ELSE IF \E i \in 1..3 : box[i] < cutoff
    THEN [error |-> "cannot calculate rascal derivatives correctly for small cells",
          forcesSet |-> FALSE]
    ELSE [error |-> "none", forcesSet |-> TRUE]

RunDiagMat ==
  \E A \in SymmetricMatrices, info1 \in Infos, info2 \in Infos :
    num' = [routine |-> "diagMat", A |-> A, infos |-> <<info1, info2>>,
            outcome |-> diagMat(A, info1, info2)]

RunInvert ==
  \E A \in [1..MaxDim -> [1..MaxDim -> 0..1]], infos \in [1..3 -> Infos] :
    num' = [routine |-> "Invert", A |-> A, infos |-> infos, outcome |-> Invert(A, infos)]

RunCholesky ==
  \E A \in SymmetricMatrices :
    /\ HasIntegerDecomposition(A)
    /\ num' = cholesky(A)

RunRascalApply ==
  \E forcesWereAdded \in BOOLEAN, box \in [1..3 -> BoxLengths], cutoff \in RascalCutoffs :
    num' = [routine |-> "apply", forcesWereAdded |-> forcesWereAdded, box |-> box,
            cutoff |-> cutoff,
            outcome |-> RascalSphericalApply(forcesWereAdded, box, cutoff)]

InitNumerics ==
  IdleNumerics /\ InitMain /\ IdleContour /\ IdleAtoms /\ IdlePack /\ IdleFilter /\ IdleLoop /\ IdleCtor /\ IdleSecondaryStructure /\ IdleCheckpoint /\ IdleCmd /\ IdleRun /\ IdleForward /\ IdleEnergy /\ IdleLabel /\ IdleExpansion

NextNumerics ==
  \/ RunDiagMat /\ UNCHANGED <<mainVars, contourVars, atomVars, packVars, filterVars, loopVars, ctorVars, ssVars, ckptVars, apiVars, runVars, fwdVars, energyVars, labelVars, expandVars>>
  \/ RunInvert /\ UNCHANGED <<mainVars, contourVars, atomVars, packVars, filterVars, loopVars, ctorVars, ssVars, ckptVars, apiVars, runVars, fwdVars, energyVars, labelVars, expandVars>>
  \/ RunCholesky /\ UNCHANGED <<mainVars, contourVars, atomVars, packVars, filterVars, loopVars, ctorVars, ssVars, ckptVars, apiVars, runVars, fwdVars, energyVars, labelVars, expandVars>>
  \/ RunRascalApply /\ UNCHANGED <<mainVars, contourVars, atomVars, packVars, filterVars, loopVars, ctorVars, ssVars, ckptVars, apiVars, runVars, fwdVars, energyVars, labelVars, expandVars>>

SpecNumerics == InitNumerics /\ [][NextNumerics]_vars

\* A diagonalization or an inversion whose LAPACK call failed returns the
\* failure and writes no result
FailedCallIsReturned ==
  num.routine \in {"diagMat", "Invert"} =>
    /\ (num.routine = "diagMat" \/ IsSymmetric(num.A)) =>
         ((num.infos[1] # 0 \/ num.infos[2] # 0) => num.outcome.returned # 0)
    /\ (num.routine = "Invert" /\ ~IsSymmetric(num.A)) =>
         ((\E k \in 1..3 : num.infos[k] # 0) => num.outcome.returned # 0)
    /\ num.outcome.returned # 0 => ~num.outcome.written

\* Forces on a cell that is smaller than the cutoff are an error, and no force
\* is set
SmallCellIsAnError ==
  (num.routine = "apply" /\ num.forcesWereAdded
     /\ \E i \in 1..3 : num.box[i] < num.cutoff) =>
    /\ num.outcome.error # "none"
    /\ ~num.outcome.forcesSet

\* A pivot of cholesky that is not positive is an error
BadPivotIsAnError ==
  (num.routine = "cholesky" /\ \E i \in 1..Len(num.pivots) : num.pivots[i] <= 0) =>
    num.error

\* C20: a numerical error at run time stops the computation with an error and
\* is never replaced by a substituted value: a failed diagonalization or
\* inversion, a pivot of cholesky that is not positive, a cell too small for
\* the cutoff in apply of RascalSpherical.
C20_NumericalErrorsAreRaised ==
  /\ FailedCallIsReturned
  /\ SmallCellIsAnError
  /\ BadPivotIsAnError

\* ---------------------------------------------------------------------------
\* writeBinary of one instance and readBinary of a fresh instance that was
\* built from the same input
\* ---------------------------------------------------------------------------

MaxCkptActions == 2

\* The numbers a value holds after a step
CkptData == {1, 2}

\* The number of elements of the box, with a small stand-in for the nine
BoxElements == 2

\* The lines of the input: values the MD code passes (a scalar, a vector, the
\* box), an interface action that depends on them, and an action whose value
\* is accumulated over the steps
CkptLines ==
  {[name |-> "PUT", size |-> 1, interface |-> TRUE, dependencies |-> FALSE],
   [name |-> "PUT", size |-> 2, interface |-> TRUE, dependencies |-> FALSE],
   [name |-> "PBC", size |-> BoxElements, interface |-> TRUE, dependencies |-> FALSE],
   [name |-> "DOMAIN_DECOMPOSITION", size |-> 0, interface |-> TRUE, dependencies |-> TRUE],
   [name |-> "AVERAGE", size |-> 1, interface |-> FALSE, dependencies |-> TRUE]}

CkptInputs == UNION {[1..n -> CkptLines] : n \in 1..MaxCkptActions}

\* PlumedMain::setupInterfaceActions: the interface actions that are called
\* ENERGY or have no dependencies, in the order of the action set
RECURSIVE setupInterfaceActions(_, _)
setupInterfaceActions(W, p) ==
  IF p > Len(W) THEN << >>
  ELSE IF W[p].interface /\ (W[p].name = "ENERGY" \/ ~W[p].dependencies)
    THEN <<p>> \o setupInterfaceActions(W, p + 1)
    ELSE setupInterfaceActions(W, p + 1)

\* An instance when the input has been read: every value is zero and so is the
\* box of every PBC action
FreshInstance(W) ==
  [vals |-> [p \in 1..Len(W) |-> [k \in 1..W[p].size |-> 0]],
   pbc |-> [p \in 1..Len(W) |-> [k \in 1..W[p].size |-> 0]]]

\* The values an instance can hold when steps have run
SteppedValues(W) ==
  {v \in [1..Len(W) -> UNION {[1..s -> CkptData] : s \in 0..BoxElements}] :
     \A p \in 1..Len(W) : Len(v[p]) = W[p].size}

\* PbcAction::setPbc: the box is copied from the value
setPbc(I, p) == [I EXCEPT !.pbc[p] = I.vals[p]]

\* PbcAction::wait of every PBC action, when the step has set the values
WaitAll(W, v) ==
  [vals |-> v,
   pbc |-> [p \in 1..Len(W) |-> IF W[p].name = "PBC" THEN v[p] ELSE [k \in 1..W[p].size |-> 0]]]

\* ActionToPutData::writeBinary: the numbers of the value, one after the other
ActionWriteBinary(I, p) == I.vals[p]

\* PlumedMain::writeBinary: the inputs write in turn
RECURSIVE writeBinary(_, _)
writeBinary(I, ins) ==
  IF ins = << >> THEN << >>
  ELSE ActionWriteBinary(I, ins[1]) \o writeBinary(I, Tail(ins))

\* ActionToPutData::readBinary: as many numbers as the value has are taken from
\* the front of the stream; PbcAction::readBinary then sets the box
ActionReadBinary(W, I, p, stream) ==
  With([I EXCEPT !.vals[p] = SubSeq(stream, 1, W[p].size)], LAMBDA I1 :
    IF W[p].name = "PBC" THEN setPbc(I1, p) ELSE I1)

\* PlumedMain::readBinary: the inputs read in turn
RECURSIVE readBinary(_, _, _, _)
readBinary(W, I, ins, stream) ==
  IF ins = << >> THEN I
  ELSE readBinary(W, ActionReadBinary(W, I, ins[1], stream), Tail(ins),
                  SubSeq(stream, W[ins[1]].size + 1, Len(stream)))

\* The same input is read by both instances
CkptReadInput ==
  /\ ckpt.phase = "none"
  /\ \E W \in CkptInputs :
       ckpt' = [phase |-> "built", W |-> W, A |-> FreshInstance(W), B |-> FreshInstance(W),
                stream |-> << >>, written |-> << >>, read |-> << >>]

\* The first instance runs a step
CkptStep ==
  /\ ckpt.phase \in {"built", "stepped"}
  /\ \E v \in SteppedValues(ckpt.W) :
       ckpt' = [ckpt EXCEPT !.phase = "stepped", !.A = WaitAll(ckpt.W, v)]

\* The first instance writes
CkptWrite ==
  /\ ckpt.phase = "stepped"
  /\ ckpt' = [ckpt EXCEPT !.phase = "written",
                          !.written = setupInterfaceActions(ckpt.W, 1),
                          !.stream = writeBinary(ckpt.A, setupInterfaceActions(ckpt.W, 1))]

\* The fresh instance reads
CkptRead ==
  /\ ckpt.phase = "written"
  /\ ckpt' = [ckpt EXCEPT !.phase = "read",
                          !.read = setupInterfaceActions(ckpt.W, 1),
                          !.B = readBinary(ckpt.W, ckpt.B, setupInterfaceActions(ckpt.W, 1),
                                           ckpt.stream)]

InitCheckpoint ==
  IdleCheckpoint /\ InitMain /\ IdleContour /\ IdleAtoms /\ IdlePack /\ IdleFilter /\ IdleLoop /\ IdleCtor /\ IdleSecondaryStructure /\ IdleNumerics /\ IdleCmd /\ IdleRun /\ IdleForward /\ IdleEnergy /\ IdleLabel /\ IdleExpansion

NextCheckpoint ==
  \/ CkptReadInput /\ UNCHANGED <<mainVars, contourVars, atomVars, packVars, filterVars, loopVars, ctorVars, ssVars, numVars, apiVars, runVars, fwdVars, energyVars, labelVars, expandVars>>
  \/ CkptStep /\ UNCHANGED <<mainVars, contourVars, atomVars, packVars, filterVars, loopVars, ctorVars, ssVars, numVars, apiVars, runVars, fwdVars, energyVars, labelVars, expandVars>>
  \/ CkptWrite /\ UNCHANGED <<mainVars, contourVars, atomVars, packVars, filterVars, loopVars, ctorVars, ssVars, numVars, apiVars, runVars, fwdVars, energyVars, labelVars, expandVars>>
  \/ CkptRead /\ UNCHANGED <<mainVars, contourVars, atomVars, packVars, filterVars, loopVars, ctorVars, ssVars, numVars, apiVars, runVars, fwdVars, energyVars, labelVars, expandVars>>

SpecCheckpoint == InitCheckpoint /\ [][NextCheckpoint]_vars

\* The values of the actions that write are reproduced, both instances visit
\* the same actions in the same order, and the box of a PBC action is the box
\* that was written
InputsAreReproduced ==
  ckpt.phase = "read" =>
    /\ ckpt.read = ckpt.written
    /\ \A k \in 1..Len(ckpt.read) :
         /\ ckpt.B.vals[ckpt.read[k]] = ckpt.A.vals[ckpt.read[k]]
         /\ ckpt.W[ckpt.read[k]].name = "PBC" =>
              ckpt.B.pbc[ckpt.read[k]] = ckpt.A.vals[ckpt.read[k]]

\* C21: writeBinary followed by readBinary on a fresh instance built from the
\* same input reproduces the contents of all the values, both visit the same
\* actions in the same order, and the box of PbcAction is the box written.
C21_CheckpointIsSymmetric ==
  ckpt.phase = "read" =>
    /\ ckpt.read = ckpt.written
    /\ \A p \in 1..Len(ckpt.W) :
         /\ ckpt.B.vals[p] = ckpt.A.vals[p]
         /\ ckpt.W[p].name = "PBC" => ckpt.B.pbc[p] = ckpt.A.vals[p]

\* ---------------------------------------------------------------------------
\* PlumedMain::cmd and the flag `initialized`
\* ---------------------------------------------------------------------------

\* How many times init may succeed before the model stops counting
MaxInits == 2

\* Actions read with readInputLine that the model counts
MaxCmdActions == 1

\* The commands of a step and of the input
StepCommands ==
  {"setBox", "setPositions", "setMasses", "setForces", "setStep", "calc",
   "prepareDependencies", "shareData", "performCalc", "update", "read",
   "readInputLine", "clear", "setStopFlag"}

\* The commands of the setup
SetupCommands ==
  {"init", "setRealPrecision", "setMDLengthUnits", "setMDEnergyUnits", "setMDTimeUnits",
   "setNatoms", "setTimestep", "setKbT", "setMDEngine", "setLog", "setMPIComm",
   "setRestart"}

\* The setup commands that go through cmd("createValue ...") themselves
CreatingCommands == {"setNatoms", "setTimestep", "setKbT"}

CHECK_INIT(ini) == ini

CHECK_NOTINITMutant(ini) == TRUE

CHECK_NOTINIT(ini) == ~ini

\* A command that throws leaves everything but the record of the command alone
Throw(a, word, text) == [a EXCEPT !.word = word, !.outcome = text]

\* PlumedMain::init
PlumedInit(a) ==
  [a EXCEPT !.initialized = TRUE,
            !.inits = IF @ < MaxInits THEN @ + 1 ELSE @]

\* case cmd_clear, after its check: the actions are deleted, the atoms are
\* created again through cmd("createValue ...") when there were atoms, and
\* initialized is set to false and then to true.  created tells whether the
\* constructor of the new action returned.
cmd_clear(a, created) ==
  IF a.natoms > 0 /\ ~created
    THEN [a EXCEPT !.actions = 0, !.outcome = "error in createValue"]
    ELSE [[[a EXCEPT !.actions = 0] EXCEPT !.initialized = FALSE]
             EXCEPT !.initialized = TRUE, !.outcome = "ok"]

\* A command of the step or of the input.  ok tells whether what the command
\* calls returned without an error.
StepCommand(a, word, ok) ==
  IF ~CHECK_INIT(a.initialized)
    THEN Throw(a, word, "should be only used after plumed initialization")
  ELSE IF word = "clear" THEN cmd_clear([a EXCEPT !.word = word], ok)
  ELSE IF ~ok THEN Throw(a, word, "error")
  ELSE IF word = "readInputLine"
    THEN [a EXCEPT !.word = word, !.outcome = "ok",
                   !.actions = IF @ < MaxCmdActions THEN @ + 1 ELSE @]
  ELSE IF word = "setStopFlag"
    THEN [a EXCEPT !.word = word, !.outcome = "ok", !.stopFlagSet = TRUE]
  ELSE [a EXCEPT !.word = word, !.outcome = "ok"]

\* A command of the setup.  n is the number of atoms setNatoms is given, and
\* ok tells whether what the command calls returned without an error.
SetupCommand(a, word, n, ok) ==
  IF ~CHECK_NOTINIT(a.initialized)
    THEN Throw(a, word, "should be only used before plumed initialization")
  ELSE IF word = "init" THEN PlumedInit([a EXCEPT !.word = word, !.outcome = "ok"])
  ELSE IF word \in CreatingCommands /\ ~ok THEN Throw(a, word, "error")
  ELSE IF word = "setNatoms"
    THEN [a EXCEPT !.word = word, !.outcome = "ok", !.natoms = n]
  ELSE [a EXCEPT !.word = word, !.outcome = "ok"]

CmdStep ==
  \E word \in StepCommands, ok \in BOOLEAN : api' = StepCommand(api, word, ok)

CmdSetup ==
  \E word \in SetupCommands, n \in 0..1, ok \in BOOLEAN :
    api' = SetupCommand(api, word, n, ok)

\* PlumedMain::PlumedMain: initialized(false)
InitCmd ==
  /\ api = [initialized |-> FALSE, inits |-> 0, natoms |-> 0, actions |-> 0,
            stopFlagSet |-> FALSE, word |-> "none", outcome |-> "ok"]
  /\ InitMain /\ IdleContour /\ IdleAtoms /\ IdlePack /\ IdleFilter /\ IdleLoop /\ IdleCtor /\ IdleSecondaryStructure /\ IdleNumerics /\ IdleCheckpoint /\ IdleRun /\ IdleForward /\ IdleEnergy /\ IdleLabel /\ IdleExpansion

NextCmd ==
  \/ CmdStep /\ UNCHANGED <<mainVars, contourVars, atomVars, packVars, filterVars, loopVars, ctorVars, ssVars, numVars, ckptVars, runVars, fwdVars, energyVars, labelVars, expandVars>>
  \/ CmdSetup /\ UNCHANGED <<mainVars, contourVars, atomVars, packVars, filterVars, loopVars, ctorVars, ssVars, numVars, ckptVars, runVars, fwdVars, energyVars, labelVars, expandVars>>

SpecCmd == InitCmd /\ [][NextCmd]_vars

\* C22: a command of the step or of the input that is given before init fails,
\* a command of the setup that is given after init fails, init succeeds at
\* most once, and initialized is true after every command that follows a
\* successful init, clear included.
C22_InitProtocol ==
  /\ [][/\ (api'.word \in StepCommands /\ ~api.initialized) =>
             (api'.outcome # "ok" /\ ~api'.initialized)
        /\ (api'.word \in SetupCommands /\ api.initialized) => api'.outcome # "ok"
        /\ api.initialized => api'.initialized]_vars
  /\ [](api.inits <= 1 /\ (api.inits = 1 => api.initialized))

C22_Witness ==
  /\ api.initialized
  /\ api.inits = 1
  /\ api.word = "clear"
  /\ api.outcome = "ok"
  /\ api.natoms = 1

\* ---------------------------------------------------------------------------
\* The derivative offsets of the arguments of an action that is computed over
\* the stream
\* ---------------------------------------------------------------------------

MaxStartsActions == 3

\* the argument lists of a function with up to four numbered ARG keywords
StartsArgLists(labels) ==
  ChainArgLists(labels) \cup { <<u, v, w, x>> : u, v, w, x \in labels }

\* the input lines of this part: atomistic actions and functions with numbered
\* ARG keywords
StartsInputLines(labels) ==
  {[kind |-> "COLVAR", rank |-> 1, ntasks |-> nt, constant |-> FALSE, arg |-> << >>,
    allow_streams |-> FALSE] : nt \in TaskCounts}
  \cup {[kind |-> "PUT", rank |-> 1, ntasks |-> nt, constant |-> TRUE, arg |-> << >>,
         allow_streams |-> FALSE] : nt \in TaskCounts}
  \cup {[kind |-> "FUNCTION", rank |-> 0, ntasks |-> 0, constant |-> FALSE, arg |-> arg,
         allow_streams |-> TRUE] : arg \in StartsArgLists(labels)}

\* cmd("readInputLine") for the input lines of this part
ReadStartsInputLine ==
  /\ Len(actionSet) < MaxStartsActions
  /\ \E line \in StartsInputLines(ValueLabels(actionSet)) :
       readInputWords(line.kind, line.rank, line.ntasks, line.constant, line.arg,
                      line.allow_streams)

NextStarts == ReadStartsInputLine /\ UNCHANGED <<contourVars, atomVars, packVars, filterVars, loopVars, ctorVars, ssVars, numVars, ckptVars, apiVars, runVars, fwdVars, energyVars, labelVars, expandVars>>

SpecStarts == Init /\ [][NextStarts]_vars

\* The entry of distinct_arguments the forces on argument i of self go to
UpstreamEntry(W, self, i) ==
  ArgNo(W[self].distinct_arguments, ActionThatAppliesForces(W, W[self].arguments[i]), 1)

\* The first argument of self whose forces go to entry k
FirstArgumentOf(W, self, k) ==
  CHOOSE i \in 1..Len(W[self].arguments) :
    /\ UpstreamEntry(W, self, i) = k
    /\ \A j \in 1..(i - 1) : UpstreamEntry(W, self, j) # k

\* The number of derivatives that lines 2837-2838 and 2862-2870 reserve for
\* entry k
RangeSize(W, self, k) ==
  IF W[self].distinct_arguments[k].second = 0
    THEN W[W[self].distinct_arguments[k].first].nderivatives
    ELSE getNumberOfValues(W, W[self].arguments[FirstArgumentOf(W, self, k)])

\* The action that was constructed last is computed over the stream
LastIsStreamed ==
  /\ actionSet # << >>
  /\ failure = "none"
  /\ isActionWithArguments(actionSet[Len(actionSet)])
  /\ actionSet[Len(actionSet)].done_over_stream

\* C23: when requestArguments has chosen streaming, two arguments have the same
\* derivative offset if and only if their forces go to the same entry of
\* distinct_arguments, and the offsets of the entries delimit ranges that
\* follow one another without overlap, whatever the order of the arguments.
C23_OffsetsFollowDistinctArguments ==
  LastIsStreamed =>
    With(Len(actionSet), LAMBDA self :
      /\ \A i, j \in 1..Len(actionSet[self].arguments) :
           (actionSet[self].arg_deriv_starts[i] = actionSet[self].arg_deriv_starts[j])
             <=> (UpstreamEntry(actionSet, self, i) = UpstreamEntry(actionSet, self, j))
      /\ \A k \in 1..Len(actionSet[self].distinct_arguments) :
           actionSet[self].arg_deriv_starts[FirstArgumentOf(actionSet, self, k)]
             = SumSeq([h \in 1..(k - 1) |-> RangeSize(actionSet, self, h)]))

\* ---------------------------------------------------------------------------
\* How often calculate, update and runFinalJobs run the tasks of an action
\* ---------------------------------------------------------------------------

TaskClasses == {"FunctionOfVector", "HistogramBase", "ContourFindingBase"}

\* theAverageInArguments and theReweightBase: absent, switched off in this
\* step, or active
Presence == {"none", "inactive", "active"}

\* The actions the constructors can leave behind.  An action is in a chain only
\* if it is computed over the stream, which an average among its own arguments
\* rules out (line 2722 stores the average) but an average inherited from the
\* action of an argument (lines 2726-2729) does not; a FunctionOfVector whose
\* function does not work with tasks is taken out of the stream by its
\* constructor, and doAtEnd is false only for a function with tasks; the grid
\* a ContourFindingBase reads is stored.
TaskActions ==
  {a \in [class : TaskClasses, inChain : BOOLEAN, average : Presence, reweight : Presence,
          doWithTasks : BOOLEAN, doAtEnd : BOOLEAN] :
     /\ a.class = "ContourFindingBase" => ~a.inChain
     /\ a.class # "FunctionOfVector" => (a.doWithTasks /\ ~a.doAtEnd)
     /\ a.class = "FunctionOfVector" =>
          /\ ~a.doWithTasks => (a.doAtEnd /\ ~a.inChain)
     /\ a.average # "none" => a.reweight = "none"}

\* ActionWithArguments::skipCalculate
skipCalculate(a) == a.average # "none" \/ a.reweight # "none"

\* ActionWithArguments::skipUpdate
skipUpdate(a) ==
  IF a.average = "none" /\ a.reweight = "none" THEN TRUE
  ELSE IF a.average # "none" THEN a.average # "active"
  ELSE a.reweight # "active"

\* runAllTasks called by the method named
RunTasksIn(r, method) == [r EXCEPT !.ran = Append(@, method)]

\* calculate of the three classes
ActionCalculate(r) ==
  IF r.a.class = "FunctionOfVector"
    THEN IF r.a.inChain THEN r
         ELSE IF ~r.a.doAtEnd THEN RunTasksIn(r, "calculate")
         ELSE IF ~r.a.doWithTasks THEN [r EXCEPT !.single = TRUE]
         ELSE r
  ELSE IF r.a.class = "HistogramBase"
    THEN IF r.a.inChain THEN r ELSE RunTasksIn(r, "calculate")
  ELSE RunTasksIn(r, "calculate")

\* update of the three classes; HistogramBase has none of its own
ActionUpdate(r) ==
  IF r.a.class = "FunctionOfVector"
    THEN IF skipUpdate(r.a) \/ r.a.inChain THEN r
         ELSE IF ~r.a.doWithTasks THEN [r EXCEPT !.failure = "myfunc.doWithTasks()"]
         ELSE IF ~r.a.doAtEnd THEN RunTasksIn(r, "update")
         ELSE r
  ELSE IF r.a.class = "HistogramBase" THEN r
  ELSE IF skipUpdate(r.a) THEN r
  ELSE RunTasksIn(r, "update")

\* runFinalJobs of the three classes
ActionRunFinalJobs(r) ==
  IF r.a.class = "FunctionOfVector"
    THEN IF skipUpdate(r.a) \/ r.a.inChain THEN r
         ELSE IF ~r.a.doWithTasks THEN [r EXCEPT !.failure = "myfunc.doWithTasks()"]
         ELSE RunTasksIn(r, "runFinalJobs")
  ELSE IF r.a.class = "HistogramBase" THEN r
  ELSE IF skipUpdate(r.a) THEN r
  ELSE RunTasksIn(r, "runFinalJobs")

\* The input is read: the action is constructed
ReadTaskAction ==
  /\ stepRun.phase = "none"
  /\ \E a \in TaskActions :
       stepRun' = [phase |-> "start", a |-> a, ran |-> << >>, single |-> FALSE,
                   failure |-> "none"]

\* A step begins; the average or the reweighting action may be on step or not
BeginStep ==
  /\ stepRun.phase \in {"calculated", "updated"}
  /\ stepRun.failure = "none"
  /\ \E on \in {"inactive", "active"} :
       stepRun' = [stepRun EXCEPT !.phase = "start", !.ran = << >>, !.single = FALSE,
                      !.a.average = IF @ = "none" THEN @ ELSE on,
                      !.a.reweight = IF @ = "none" THEN @ ELSE on]

\* PlumedMain::justCalculate calls calculate on the active action
StepCalculate ==
  /\ stepRun.phase = "start"
  /\ stepRun' = [ActionCalculate(stepRun) EXCEPT !.phase = "calculated"]

\* PlumedMain::update calls update on the active action
StepUpdate ==
  /\ stepRun.phase = "calculated"
  /\ stepRun' = [ActionUpdate(stepRun) EXCEPT !.phase = "updated"]

\* PlumedMain::runJobsAtEndOfCalculation, after the last step
StepRunFinalJobs ==
  /\ stepRun.phase \in {"calculated", "updated"}
  /\ stepRun.failure = "none"
  /\ stepRun' = [ActionRunFinalJobs([stepRun EXCEPT !.ran = << >>]) EXCEPT !.phase = "final"]

InitTaskRuns ==
  /\ IdleRun
  /\ InitMain /\ IdleContour /\ IdleAtoms /\ IdlePack /\ IdleFilter /\ IdleLoop /\ IdleCtor /\ IdleSecondaryStructure /\ IdleNumerics /\ IdleCheckpoint /\ IdleCmd /\ IdleForward /\ IdleEnergy /\ IdleLabel /\ IdleExpansion

NextTaskRuns ==
  \/ ReadTaskAction /\ UNCHANGED <<mainVars, contourVars, atomVars, packVars, filterVars, loopVars, ctorVars, ssVars, numVars, ckptVars, apiVars, fwdVars, energyVars, labelVars, expandVars>>
  \/ BeginStep /\ UNCHANGED <<mainVars, contourVars, atomVars, packVars, filterVars, loopVars, ctorVars, ssVars, numVars, ckptVars, apiVars, fwdVars, energyVars, labelVars, expandVars>>
  \/ StepCalculate /\ UNCHANGED <<mainVars, contourVars, atomVars, packVars, filterVars, loopVars, ctorVars, ssVars, numVars, ckptVars, apiVars, fwdVars, energyVars, labelVars, expandVars>>
  \/ StepUpdate /\ UNCHANGED <<mainVars, contourVars, atomVars, packVars, filterVars, loopVars, ctorVars, ssVars, numVars, ckptVars, apiVars, fwdVars, energyVars, labelVars, expandVars>>
  \/ StepRunFinalJobs /\ UNCHANGED <<mainVars, contourVars, atomVars, packVars, filterVars, loopVars, ctorVars, ssVars, numVars, ckptVars, apiVars, fwdVars, energyVars, labelVars, expandVars>>

SpecTaskRuns == InitTaskRuns /\ [][NextTaskRuns]_vars

\* An action in a chain never runs its tasks in its own calculate, update or
\* runFinalJobs
ChainedActionRunsNothing ==
  (stepRun.phase # "none" /\ stepRun.a.inChain) => stepRun.ran = << >>

\* C24: in one step the tasks of the action are run at most once: never by its
\* own calculate, update or runFinalJobs when it is in a chain, and otherwise
\* either in calculate, when there is no average and no reweighting action
\* among its arguments, or in update, when there is one, but not in both.
C24_TasksRunOncePerStep ==
  stepRun.phase # "none" =>
    /\ Len(stepRun.ran) <= 1
    /\ stepRun.a.inChain => stepRun.ran = << >>
    /\ stepRun.phase \in {"calculated", "updated"} =>
         \A k \in 1..Len(stepRun.ran) :
           stepRun.ran[k] = IF skipCalculate(stepRun.a) THEN "update" ELSE "calculate"

\* ---------------------------------------------------------------------------
\* A colvar in which one atom holds several positions: ANGLE with three atoms
\* ---------------------------------------------------------------------------

\* The two derivative vectors PLMD::Angle::compute returns, as multiples of
\* (1, 2, 3)
AngleDerivatives == {1, 2, 3}

\* The coordinate of atom a that enters the virial
AtomCoordinate(a) == a + 1

\* MultiColvarBase::useFourAtomsForEachCV for one task: a, b, c becomes
\* a, b, b, c
useFourAtomsForEachCV(b) == <<b[1], b[2], b[2], b[3]>>

\* component c of the vector dd*(1, 2, 3)
VectorOf(dd) == [c \in 0..2 |-> dd * (c + 1)]

Minus(v) == [c \in 0..2 |-> 0 - v[c]]

newiMutant(blocks, i) == TRUE

\* lines 383-387 and 405-409: no earlier position holds the atom of position i
newi(blocks, i) == \A j \in 1..(i - 1) : blocks[j] # blocks[i]

\* MultiColvarBase::addAtomsDerivatives: the vector is added to the three
\* derivatives of the atom of position jder
addAtomsDerivatives(stored, blocks, jder, der) ==
  [x \in DOMAIN stored |->
     IF x \in {(3 * blocks[jder + 1]) + c : c \in 0..2}
       THEN stored[x] + der[x - (3 * blocks[jder + 1])]
       ELSE stored[x]]

\* MultiColvarBase::setBoxDerivativesNoPbc: the atoms that enter the virial, one
\* for each position that is new, and the row of the virial that belongs to
\* the coordinate fpositions holds
RECURSIVE setBoxDerivativesNoPbc(_, _, _, _, _)
setBoxDerivativesNoPbc(blocks, fpositions, stored, i, box) ==
  IF i > Len(blocks) THEN box
  ELSE IF ~newi(blocks, i) THEN setBoxDerivativesNoPbc(blocks, fpositions, stored, i + 1, box)
  ELSE setBoxDerivativesNoPbc(blocks, fpositions, stored, i + 1,
         [counted |-> Append(box.counted, blocks[i]),
          virial |-> [c \in 0..2 |->
                        box.virial[c] - (fpositions[i] * stored[(3 * blocks[i]) + c])]])

\* Angle::compute: the four contributions, then the virial
AngleCompute(blocks, fpositions, ddij, ddik, n) ==
  With(addAtomsDerivatives(
         addAtomsDerivatives(
           addAtomsDerivatives(
             addAtomsDerivatives([x \in 0..((3 * n) - 1) |-> 0], blocks, 0, VectorOf(ddik)),
             blocks, 1, Minus(VectorOf(ddik))),
           blocks, 2, Minus(VectorOf(ddij))),
         blocks, 3, VectorOf(ddij)), LAMBDA stored :
    [stored |-> stored,
     box |-> setBoxDerivativesNoPbc(blocks, fpositions, stored, 1,
                                    [counted |-> << >>, virial |-> [c \in 0..2 |-> 0]])])

\* MultiColvarBase::performTask, lines 381-395: the indices registered for the
\* one output component, in the order of the calls of updateIndex
RECURSIVE RegisterAtoms(_, _)
RegisterAtoms(blocks, i) ==
  IF i > Len(blocks) THEN << >>
  ELSE IF ~newi(blocks, i) THEN RegisterAtoms(blocks, i + 1)
  ELSE <<3 * blocks[i], (3 * blocks[i]) + 1, (3 * blocks[i]) + 2>>
         \o RegisterAtoms(blocks, i + 1)

\* MultiColvarBase::performTask of an ANGLE
AnglePerformTask ==
  /\ natoms = 3
  /\ \E b \in [1..3 -> 0..(natoms - 1)], ddij \in AngleDerivatives,
        ddik \in AngleDerivatives :
       \E blocks \in {useFourAtomsForEachCV(b)} :
         /\ task' = [name |-> "Angle", skipped |-> FALSE, atoms |-> blocks,
                     ddij |-> ddij, ddik |-> ddik]
         /\ derivs' = [compute |-> AngleCompute(blocks, [i \in 1..4 |-> AtomCoordinate(blocks[i])],
                                                ddij, ddik, natoms),
                       registered |-> RegisterAtoms(blocks, 1)
                                        \o [i \in 1..9 |-> (3 * natoms) + (i - 1)]]
  /\ UNCHANGED natoms

NextAngle ==
  AnglePerformTask /\ UNCHANGED <<mainVars, contourVars, packVars, filterVars, loopVars, ctorVars, ssVars, numVars, ckptVars, apiVars, runVars, fwdVars, energyVars, labelVars, expandVars>>

SpecAngle == InitAtomisticTask /\ [][NextAngle]_vars

\* How often x is an element of the sequence s
TimesIn(s, x) == Cardinality({k \in 1..Len(s) : s[k] = x})

\* The contribution of position i to component c of the derivative
ContributionOf(i, c) ==
  IF i = 1 THEN task.ddik * (c + 1)
  ELSE IF i = 2 THEN 0 - (task.ddik * (c + 1))
  ELSE IF i = 3 THEN 0 - (task.ddij * (c + 1))
  ELSE task.ddij * (c + 1)

\* C25: when an atom holds several positions of a colvar, each of its three
\* derivative indices is registered exactly once for the output component, the
\* atom enters the virial exactly once, and the derivative stored at its index
\* is the sum of the contributions of all its positions.
C25_RepeatedAtomCountedOnce ==
  task.name = "Angle" =>
    \A a \in {task.atoms[i] : i \in 1..4} :
      /\ TimesIn(derivs.compute.box.counted, a) = 1
      /\ \A c \in 0..2 :
           /\ TimesIn(derivs.registered, (3 * a) + c) = 1
           /\ derivs.compute.stored[(3 * a) + c]
                = SumSeq([i \in 1..4 |-> IF task.atoms[i] = a THEN ContributionOf(i, c) ELSE 0])

C25_Witness ==
  /\ task.name = "Angle"
  /\ task.atoms = <<0, 1, 1, 2>>
  /\ task.ddij = 1 /\ task.ddik = 2
  /\ derivs.compute.stored[3] = 0 - 3
  /\ derivs.compute.box.counted = <<0, 1, 2>>

\* ---------------------------------------------------------------------------
\* The first-step flag of the forward pass
\* ---------------------------------------------------------------------------

\* forward passes followed
MaxPasses == 3

\* the subsets of the inputs a pilot can depend on
InputSubsets == SUBSET {1, 2}

\* a pilot that depends on the inputs deps
PilotOn(deps) == [NewAction("PRINT", 0, 0, FALSE, 0) EXCEPT !.dependencies = deps]

\* The action sets followed: two inputs, then two pilots
ForwardSets ==
  { <<NewAction("PUT", 0, 0, FALSE, 0), NewAction("PUT", 0, 0, FALSE, 0),
      PilotOn(d1), PilotOn(d2)>> : d1 \in InputSubsets, d2 \in InputSubsets }

\* ActionForInterface::ActionForInterface: the flag of a new input is set
NewFirstStep(W) == [p \in inputs(W) |-> TRUE]

\* ActionForInterface::calculate on the inputs among the actions calculated
InterfaceCalculate(firststep, calculated) ==
  [p \in DOMAIN firststep |-> IF p \in calculated THEN FALSE ELSE firststep[p]]

\* lines 2153-2156: the local flag of justCalculate
LocalFirstStep(W, firststep) == \E ip \in inputs(W) : firststep[ip]

\* PlumedMain::justCalculate after prepareDependencies with the pilots onStep
\* on step: a pass records the actions calculated and the actions on which
\* setupConstantValues( true ) was called
ForwardPass(r, onStep) ==
  IF onStep = {} THEN [r EXCEPT !.passes = Append(@, [calculated |-> {}, constants |-> {}])]
  ELSE With(activate(r.W, onStep), LAMBDA on :
    [r EXCEPT !.firststep = InterfaceCalculate(@, on),
              !.passes = Append(@, [calculated |-> on,
                                    constants |-> IF LocalFirstStep(r.W, r.firststep)
                                                  THEN on ELSE {}])])

\* The input is read
ReadForwardInput ==
  /\ fwd.phase = "none"
  /\ \E W \in ForwardSets :
       fwd' = [phase |-> "run", W |-> W, firststep |-> NewFirstStep(W), passes |-> << >>]

\* A step: some pilots are on step, or none
ForwardStep ==
  /\ fwd.phase = "run"
  /\ Len(fwd.passes) < MaxPasses
  /\ \E onStep \in SUBSET pilots(fwd.W) : fwd' = ForwardPass(fwd, onStep)

InitForward == InitMain /\ IdleContour /\ IdleAtoms /\ IdlePack /\ IdleFilter /\ IdleLoop /\ IdleCtor /\ IdleSecondaryStructure /\ IdleNumerics /\ IdleCheckpoint /\ IdleCmd /\ IdleRun /\ fwd = [phase |-> "none"] /\ IdleEnergy /\ IdleLabel /\ IdleExpansion

NextForward ==
  \/ (ReadForwardInput /\ UNCHANGED <<mainVars, contourVars, atomVars, packVars, filterVars, loopVars, ctorVars, ssVars, numVars, ckptVars, apiVars, runVars, energyVars, labelVars, expandVars>>)
  \/ (ForwardStep /\ UNCHANGED <<mainVars, contourVars, atomVars, packVars, filterVars, loopVars, ctorVars, ssVars, numVars, ckptVars, apiVars, runVars, energyVars, labelVars, expandVars>>)

SpecForward == InitForward /\ [][NextForward]_vars

\* the passes of the run in which actions were calculated
ForwardPasses == { i \in 1..Len(fwd.passes) : fwd.passes[i].calculated # {} }

\* C26: setupConstantValues( true ) is called only in the first forward pass:
\* in a pass that follows a pass in which actions were calculated it is called
\* on no action
C26_ConstantsOnlyInFirstPass ==
  fwd.phase = "run" =>
    \A i \in ForwardPasses :
      (\E j \in ForwardPasses : j < i) => fwd.passes[i].constants = {}

\* When every input was calculated in an earlier pass, setupConstantValues is
\* not called again
ConstantsEndWithTheInputs ==
  fwd.phase = "run" =>
    \A i \in ForwardPasses :
      (inputs(fwd.W) \subseteq UNION { fwd.passes[j].calculated : j \in 1..(i - 1) })
        => fwd.passes[i].constants = {}

\* ---------------------------------------------------------------------------
\* The stop flag of the MD code
\* ---------------------------------------------------------------------------

\* The last command went through the store of line 2091 while stopFlag was
\* the null pointer of the constructor: no pilot was on step, no input is ever
\* on step, and no flag has been registered
StoredThroughNull ==
  /\ lastCmd \in {"calc", "prepareCalc"}
  /\ stopFlag = "NULL"
  /\ \E i \in Positions("prepareDependencies") : trace[i].f = {}

\* C27: PlumedMain writes through the stop flag only after cmd("setStopFlag")
\* has registered one: no command stores through the null pointer
C27_StopFlagWrittenOnlyWhenRegistered == ~StoredThroughNull

\* ---------------------------------------------------------------------------
\* The bias and the work of a step, and the step in which no pilot is on step
\* ---------------------------------------------------------------------------

\* ActionWithValue::getOutputQuantity: the component of that name of a bias,
\* and zero for an action that has no such component
getOutputQuantity(a, name) ==
  IF a.kind = "BIAS" THEN (IF name = "bias" THEN 1 ELSE 2) ELSE 0

\* lines 2189-2190 over the actions calculated, which are those of the
\* events "calculate" of the trace tr
OutputQuantities(W, tr, name) ==
  SumSeq([i \in 1..Len(tr) |->
            IF tr[i].op = "calculate" THEN getOutputQuantity(W[tr[i].a], name) ELSE 0])

\* justCalculate when it goes on although no pilot is on step
justCalculateEnergyMutant(e, act, W, tr) ==
  [e EXCEPT !.bias = OutputQuantities(W, tr, "bias"),
            !.work = OutputQuantities(W, tr, "work")]

\* lines 2146-2149 and 2189-2190: what justCalculate does to bias and work;
\* act is the member active, tr the trace of the command
justCalculateEnergy(e, act, W, tr) ==
  IF ~act THEN e
  ELSE [e EXCEPT !.bias = OutputQuantities(W, tr, "bias"),
                 !.work = OutputQuantities(W, tr, "work")]

\* bias and work after the command that has just run
EnergyAfter ==
  IF \E i \in 1..Len(trace') : trace'[i].op = "justCalculate"
  THEN justCalculateEnergy(energy, active', actionSet', trace')
  ELSE energy

\* lines 1332-1333: the constructor of PlumedMain
InitEnergy == InitMain /\ IdleContour /\ IdleAtoms /\ IdlePack /\ IdleFilter /\ IdleLoop /\ IdleCtor /\ IdleSecondaryStructure /\ IdleNumerics /\ IdleCheckpoint /\ IdleCmd /\ IdleRun /\ IdleForward /\ energy = [phase |-> "run", bias |-> 0, work |-> 0] /\ IdleLabel /\ IdleExpansion

NextEnergy ==
  \/ (ReadInputLine /\ energy' = EnergyAfter /\ UNCHANGED <<contourVars, atomVars, packVars, filterVars, loopVars, ctorVars, ssVars, numVars, ckptVars, apiVars, runVars, fwdVars, labelVars, expandVars>>)
  \/ (SetInputValue /\ energy' = EnergyAfter /\ UNCHANGED <<contourVars, atomVars, packVars, filterVars, loopVars, ctorVars, ssVars, numVars, ckptVars, apiVars, runVars, fwdVars, labelVars, expandVars>>)
  \/ (SetStopFlag /\ energy' = EnergyAfter /\ UNCHANGED <<contourVars, atomVars, packVars, filterVars, loopVars, ctorVars, ssVars, numVars, ckptVars, apiVars, runVars, fwdVars, labelVars, expandVars>>)
  \/ (Calc /\ energy' = EnergyAfter /\ UNCHANGED <<contourVars, atomVars, packVars, filterVars, loopVars, ctorVars, ssVars, numVars, ckptVars, apiVars, runVars, fwdVars, labelVars, expandVars>>)
  \/ (PrepareCalc /\ energy' = EnergyAfter /\ UNCHANGED <<contourVars, atomVars, packVars, filterVars, loopVars, ctorVars, ssVars, numVars, ckptVars, apiVars, runVars, fwdVars, labelVars, expandVars>>)
  \/ (PerformCalc /\ energy' = EnergyAfter /\ UNCHANGED <<contourVars, atomVars, packVars, filterVars, loopVars, ctorVars, ssVars, numVars, ckptVars, apiVars, runVars, fwdVars, labelVars, expandVars>>)
  \/ (PerformCalcNoUpdate /\ energy' = EnergyAfter /\ UNCHANGED <<contourVars, atomVars, packVars, filterVars, loopVars, ctorVars, ssVars, numVars, ckptVars, apiVars, runVars, fwdVars, labelVars, expandVars>>)

SpecEnergy == InitEnergy /\ [][NextEnergy]_vars

\* the commands that run phases of the step after prepareDependencies
PhaseCommands == {"calc", "prepareCalc", "performCalc", "performCalcNoUpdate"}

\* C28: when prepareDependencies has found no pilot on step, the phases that
\* follow do nothing: the trace of the command holds the phases alone, no
\* action is calculated, applied or updated, no force is cleared or added,
\* and bias and work keep their values
C28_IdleStepChangesNothing ==
  [][(lastCmd' \in PhaseCommands /\ ~active')
       => /\ \A i \in 1..Len(trace') : trace'[i].a = 0
          /\ inputForces' = Aged(inputForces)
          /\ energy' = energy]_vars

\* a step without a pilot on step has followed a step that left a bias, a
\* work and a force
C28_Witness ==
  /\ lastCmd \in {"calc", "performCalc"} /\ ~active /\ failure = "none"
  /\ \E i \in 1..Len(trace) : trace[i].op = "update"
  /\ energy.bias > 0 /\ energy.work > 0
  /\ \E p \in 1..Len(inputForces) : inputForces[p] # {}

\* ---------------------------------------------------------------------------
\* ActionShortcut::interpretDataLabel
\* ---------------------------------------------------------------------------

\* bits of the unsigned counter j that are followed; the counter of the code
\* has 32
UnsignedBits == 4

\* components of a name, in characters
MaxNameLength == 3

\* numbered actions a shortcut has created for one component
MaxNumbered == 2

\* 2^n
RECURSIVE Pow2(_)
Pow2(n) == IF n = 0 THEN 1 ELSE 2 * Pow2(n - 1)

\* The characters of the names: l and m stand for the registered output
\* components, x for any other text
NameCharacters == {"l", "x", "1", "5"}

\* the part of a data label that follows the dot
ComponentNames ==
  UNION { [1..n -> NameCharacters] : n \in 1..MaxNameLength } \cup {<<"*">>}

\* Keywords::getAllOutputComponents of the shortcut
OutputComponents == {<<<<"l">>>>, <<<<"m">>, <<"l">>>>}

DecimalDigits == <<"0", "1", "2", "3", "4", "5", "6", "7", "8", "9">>

RECURSIVE convert(_)
\* Tools::convert of an unsigned to a string
convert(j) ==
  IF j < 10 THEN <<DecimalDigits[j + 1]>>
  ELSE convert(j \div 10) \o <<DecimalDigits[(j % 10) + 1]>>

\* name.find( comp )!=std::string::npos
find(name, comp) ==
  \E i \in 1..(Len(name) - Len(comp) + 1) : SubSeq(name, i, i + Len(comp) - 1) = comp

\* ++j on an unsigned
NextUnsigned(j) == (j + 1) % Pow2(UnsignedBits)

\* Value::use through the pointer selectWithLabel returned: a null pointer
\* ends the process
UseOutput(s, found) ==
  IF found THEN [s EXCEPT !.used = TRUE] ELSE [s EXCEPT !.phase = "crashed"]

\* lines 137-152 for the component k: the loop over the components goes on,
\* ends, or the search over the numbered components begins
ComponentStep(s) ==
  IF s.k > Len(s.out_comps) THEN [s EXCEPT !.phase = "returned"]
  ELSE IF ~find(s.name, s.out_comps[s.k]) THEN [s EXCEPT !.k = @ + 1]
  ELSE IF s.name = s.out_comps[s.k]
    THEN With(UseOutput(s, s.found), LAMBDA s1 :
           IF s1.phase = "crashed" THEN s1 ELSE [s1 EXCEPT !.phase = "returned"])
  ELSE [s EXCEPT !.phase = "numbered", !.j = 1]

\* lines 143-149: one iteration of the search over the numbered components
NumberedStep(s) ==
  With(IF s.name = s.out_comps[s.k] \o convert(s.j) THEN UseOutput(s, s.found) ELSE s,
       LAMBDA s1 : [s1 EXCEPT !.j = NextUnsigned(@)])

\* lines 121-126 for the component k of the label with the star: one
\* iteration of the loop over the numbered actions, which ends at the first
\* number without an action
StarStep(s) ==
  IF s.k > Len(s.out_comps) THEN [s EXCEPT !.phase = "returned"]
  ELSE IF s.j > s.numbered THEN [s EXCEPT !.k = @ + 1, !.j = 1]
  ELSE [s EXCEPT !.used = TRUE, !.j = NextUnsigned(@)]

\* lines 102-106 and 133-135: the label is split, and an action with a
\* component of that name ends the search
interpretDataLabel(name, out_comps, direct, found, numbered) ==
  With([phase |-> "components", name |-> name, out_comps |-> out_comps, k |-> 1, j |-> 1,
        found |-> found, numbered |-> numbered, used |-> FALSE], LAMBDA s :
    IF name = <<"*">> THEN [s EXCEPT !.phase = "star"]
    ELSE IF direct THEN [s EXCEPT !.phase = "returned", !.used = TRUE]
    ELSE s)

\* A data label that names a shortcut is interpreted
BeginLabel ==
  /\ dataLabel.phase = "none"
  /\ \E name \in ComponentNames, out_comps \in OutputComponents, direct \in BOOLEAN,
        found \in BOOLEAN, numbered \in 0..MaxNumbered :
       /\ name = <<"*">> => (~direct /\ found)
       /\ name # <<"*">> => numbered = 0
       /\ direct => found
       /\ dataLabel' = interpretDataLabel(name, out_comps, direct, found, numbered)

LabelComponent ==
  /\ dataLabel.phase = "components"
  /\ dataLabel' = ComponentStep(dataLabel)

LabelNumbered ==
  /\ dataLabel.phase = "numbered"
  /\ dataLabel' = NumberedStep(dataLabel)

LabelStar ==
  /\ dataLabel.phase = "star"
  /\ dataLabel' = StarStep(dataLabel)

InitDataLabel == InitMain /\ IdleContour /\ IdleAtoms /\ IdlePack /\ IdleFilter /\ IdleLoop /\ IdleCtor /\ IdleSecondaryStructure /\ IdleNumerics /\ IdleCheckpoint /\ IdleCmd /\ IdleRun /\ IdleForward /\ IdleEnergy /\ dataLabel = [phase |-> "none"] /\ IdleExpansion

NextDataLabel ==
  \/ (BeginLabel /\ UNCHANGED <<mainVars, contourVars, atomVars, packVars, filterVars, loopVars, ctorVars, ssVars, numVars, ckptVars, apiVars, runVars, fwdVars, energyVars, expandVars>>)
  \/ (LabelComponent /\ UNCHANGED <<mainVars, contourVars, atomVars, packVars, filterVars, loopVars, ctorVars, ssVars, numVars, ckptVars, apiVars, runVars, fwdVars, energyVars, expandVars>>)
  \/ (LabelNumbered /\ UNCHANGED <<mainVars, contourVars, atomVars, packVars, filterVars, loopVars, ctorVars, ssVars, numVars, ckptVars, apiVars, runVars, fwdVars, energyVars, expandVars>>)
  \/ (LabelStar /\ UNCHANGED <<mainVars, contourVars, atomVars, packVars, filterVars, loopVars, ctorVars, ssVars, numVars, ckptVars, apiVars, runVars, fwdVars, energyVars, expandVars>>)

\* the function runs on while it has not returned
SpecDataLabel == InitDataLabel /\ [][NextDataLabel]_vars /\ WF_vars(NextDataLabel)

\* C29: interpretDataLabel terminates for every data label: once it is
\* called it returns, or the process ends
C29_InterpretDataLabelTerminates ==
  (dataLabel.phase # "none") ~> (dataLabel.phase \in {"returned", "crashed"})

\* The label with the star, the label of a component of an action, and the
\* label whose name contains no registered component are interpreted in
\* finitely many steps
OtherLabelsTerminate ==
  (dataLabel.phase \in {"components", "star"}
     /\ \A k \in dataLabel.k..Len(dataLabel.out_comps) :
          find(dataLabel.name, dataLabel.out_comps[k]) => dataLabel.name = dataLabel.out_comps[k])
    ~> (dataLabel.phase \in {"returned", "crashed"})

\* ---------------------------------------------------------------------------
\* MultiColvarBase::expandFunctions
\* ---------------------------------------------------------------------------

\* keywords of the shortcut that are present together
MaxKeywords == 3

\* NBINS of a HISTOGRAM keyword
HistogramBins == 2

\* the keywords of MultiColvarBase::shortcutKeywords that are followed
ShortcutKeys ==
  {"LESS_THAN", "LESS_THAN1", "LESS_THAN2", "MORE_THAN", "MORE_THAN1", "MORE_THAN2",
   "ALT_MIN", "MIN", "MAX", "HIGHEST", "LOWEST", "SUM", "MEAN",
   "BETWEEN", "BETWEEN1", "BETWEEN2", "HISTOGRAM"}

\* the keys of the map readShortcutKeywords fills
Keymaps == { k \in SUBSET ShortcutKeys : Cardinality(k) <= MaxKeywords }

RECURSIVE Concatenate(_)
\* operator+ of std::string over the pieces of s
Concatenate(s) == IF s = << >> THEN "" ELSE s[1] \o Concatenate(Tail(s))

\* An input line is the sequence of the pieces of text the code puts
\* together; a piece " " is a blank, and the text of a SWITCH is one piece.
\* This is label: NAME followed by rest
InputLine(label, name, rest) == label \o <<":", " ", name>> \o rest

\* The three lines of a keyword with a switching function: the function of
\* argin, its product with the weights when there are weights, and the sum.
\* istr is the number of the keyword, or empty; sep is what the code puts
\* between the weights and ARG2, and ref the tag of the action ARG2 names
SwitchLines(labout, argin, weights, istr, name, tag, wtag, out, sep, ref) ==
  <<InputLine(<<labout, tag, istr>>, name, <<" ", "ARG=", argin, " ", "SWITCH=", "{}">>)>>
  \o (IF weights # ""
      THEN <<InputLine(<<labout, wtag, istr>>, "MATHEVAL",
                       <<" ", "ARG1=", weights>> \o sep
                       \o <<"ARG2=", labout, ref, istr, " ", "FUNC=", "x*y",
                            " ", "PERIODIC=", "NO">>)>>
      ELSE << >>)
  \o <<InputLine(<<labout, out, istr>>, "SUM",
                 <<" ", "ARG=", labout, IF weights # "" THEN wtag ELSE tag, istr,
                   " ", "PERIODIC=", "NO">>)>>

RECURSIVE NumberedLines(_, _, _, _, _, _, _, _, _, _, _, _)
\* the loops for(unsigned i=1;; ++i) over the numbered keywords key1, key2, ...
NumberedLines(keymap, key, i, labout, argin, weights, name, tag, wtag, out, sep, ref) ==
  IF (key \o Concatenate(convert(i))) \notin keymap THEN << >>
  ELSE SwitchLines(labout, argin, weights, Concatenate(convert(i)), name, tag, wtag, out,
                   sep, ref)
       \o NumberedLines(keymap, key, i + 1, labout, argin, weights, name, tag, wtag, out,
                        sep, ref)

\* the three lines of ALT_MIN, MIN and MAX
ExponentialLines(labout, argin, tag) ==
  <<InputLine(<<labout, "_me_", tag>>, "MATHEVAL",
              <<" ", "ARG1=", argin, " ", "FUNC=", "exp", " ", "PERIODIC=", "NO">>),
    InputLine(<<labout, "_mec_", tag>>, "SUM",
              <<" ", "ARG=", labout, "_me_", tag, " ", "PERIODIC=", "NO">>),
    InputLine(<<labout, "_", tag>>, "MATHEVAL",
              <<" ", "ARG=", labout, "_mec_", tag, " ", "FUNC=", "log", " ", "PERIODIC=", "NO">>)>>

RECURSIVE HistogramLines(_, _, _, _, _)
\* lines 220-230: the loop over the bins of a HISTOGRAM
HistogramLines(labout, argin, weights, i, nbins) ==
  IF i >= nbins THEN << >>
  ELSE SwitchLines(labout, argin, weights, Concatenate(convert(i + 1)), "BETWEEN", "_bt",
                   "_wbt", "_between", <<" ">>, "_bt")
       \o HistogramLines(labout, argin, weights, i + 1, nbins)

\* readInputLine on each of the lines new, unless an error has been raised
ReadLines(r, new) == IF r.failed THEN r ELSE [r EXCEPT !.lines = @ \o new]

\* plumed_merror of a keyword that cannot be used with weights
WithoutWeights(r, weights, new) ==
  IF r.failed THEN r
  ELSE IF weights # "" THEN [r EXCEPT !.failed = TRUE]
  ELSE ReadLines(r, new)

\* the block of a keyword is run when the keyword is in the map
IfKey(keymap, key, r, done) == IF key \in keymap THEN done ELSE r

\* MultiColvarBase::expandFunctions
expandFunctions(labout, argin, weights, keymap) ==
  With([lines |-> << >>, failed |-> FALSE], LAMBDA r0 :
  With(IfKey(keymap, "LESS_THAN", r0,
         ReadLines(r0, SwitchLines(labout, argin, weights, "", "LESS_THAN", "_lt", "_wlt",
                                   "_lessthan", <<" ">>, "_lt"))), LAMBDA r1 :
  With(IfKey(keymap, "LESS_THAN1", r1,
         ReadLines(r1, NumberedLines(keymap, "LESS_THAN", 1, labout, argin, weights,
                                     "LESS_THAN", "_lt", "_wlt", "_lessthan", << >>, "_lt"))),
       LAMBDA r2 :
  With(IfKey(keymap, "MORE_THAN", r2,
         ReadLines(r2, SwitchLines(labout, argin, weights, "", "MORE_THAN", "_mt", "_wmt",
                                   "_morethan", <<" ">>, "_mt"))), LAMBDA r3 :
  With(IfKey(keymap, "MORE_THAN1", r3,
         ReadLines(r3, NumberedLines(keymap, "MORE_THAN", 1, labout, argin, weights,
                                     "MORE_THAN", "_mt", "_wmt", "_morethan", << >>, "_lt"))),
       LAMBDA r4 :
  With(IfKey(keymap, "ALT_MIN", r4,
         WithoutWeights(r4, weights, ExponentialLines(labout, argin, "altmin"))), LAMBDA r5 :
  With(IfKey(keymap, "MIN", r5,
         WithoutWeights(r5, weights, ExponentialLines(labout, argin, "min"))), LAMBDA r6 :
  With(IfKey(keymap, "MAX", r6,
         WithoutWeights(r6, weights, ExponentialLines(labout, argin, "max"))), LAMBDA r7 :
  With(IfKey(keymap, "HIGHEST", r7,
         WithoutWeights(r7, weights,
           <<InputLine(<<labout, "_highest">>, "HIGHEST", <<" ", "ARG=", argin>>)>>)),
       LAMBDA r8 :
  With(IfKey(keymap, "LOWEST", r8,
         WithoutWeights(r8, weights,
           <<InputLine(<<labout, "_lowest">>, "LOWEST", <<" ", "ARG=", argin>>)>>)),
       LAMBDA r9 :
  With(IfKey(keymap, "SUM", r9,
         ReadLines(r9,
           (IF weights # ""
            THEN <<InputLine(<<labout, "_wsum">>, "MATHEVAL",
                             <<" ", "ARG1=", weights, " ", "ARG2=", argin, " ", "FUNC=", "x*y",
                               " ", "PERIODIC=", "NO">>)>>
            ELSE << >>)
           \o <<InputLine(<<labout, "_sum">>, "SUM",
                          (IF weights # "" THEN <<" ", "ARG=", labout, "_wsum">>
                           ELSE <<" ", "ARG=", argin>>) \o <<" ", "PERIODIC=", "NO">>)>>)),
       LAMBDA r10 :
  With(IfKey(keymap, "MEAN", r10,
         WithoutWeights(r10, weights,
           <<InputLine(<<labout, "_mean">>, "MEAN",
                       <<" ", "ARG=", argin, " ", "PERIODIC=", "NO">>)>>)), LAMBDA r11 :
  With(IfKey(keymap, "BETWEEN", r11,
         ReadLines(r11, SwitchLines(labout, argin, weights, "", "BETWEEN", "_bt", "_wbt",
                                    "_between", <<" ">>, "_bt"))), LAMBDA r12 :
  With(IfKey(keymap, "BETWEEN1", r12,
         ReadLines(r12, NumberedLines(keymap, "BETWEEN", 1, labout, argin, weights,
                                      "BETWEEN", "_bt", "_wbt", "_between", <<" ">>, "_bt"))),
       LAMBDA r13 :
  IfKey(keymap, "HISTOGRAM", r13,
        ReadLines(r13, HistogramLines(labout, argin, weights, 0, HistogramBins)))
  ))))))))))))))

\* A shortcut is read: its keywords are expanded
ExpandFunctions ==
  /\ expansion.phase = "none"
  /\ \E keymap \in Keymaps, weights \in {"", "w"} :
       expansion' = [phase |-> "expanded", labout |-> "s", argin |-> "d", weights |-> weights,
                     keymap |-> keymap, out |-> expandFunctions("s", "d", weights, keymap)]

InitExpansion == InitMain /\ IdleContour /\ IdleAtoms /\ IdlePack /\ IdleFilter /\ IdleLoop /\ IdleCtor /\ IdleSecondaryStructure /\ IdleNumerics /\ IdleCheckpoint /\ IdleCmd /\ IdleRun /\ IdleForward /\ IdleEnergy /\ IdleLabel /\ expansion = [phase |-> "none"]

NextExpansion ==
  \/ (ExpandFunctions /\ UNCHANGED <<mainVars, contourVars, atomVars, packVars, filterVars, loopVars, ctorVars, ssVars, numVars, ckptVars, apiVars, runVars, fwdVars, energyVars, labelVars>>)

SpecExpansion == InitExpansion /\ [][NextExpansion]_vars

\* the label of an input line: the text before the colon
LabelOf(line) ==
  Concatenate(SubSeq(line, 1, (CHOOSE i \in 1..Len(line) :
                                 line[i] = ":" /\ \A j \in 1..(i - 1) : line[j] # ":") - 1))

RECURSIVE WordsOf(_)
\* Tools::getWords: the words of a line, which blanks separate
WordsOf(line) ==
  IF line = << >> THEN << >>
  ELSE IF line[1] = " " THEN WordsOf(Tail(line))
  ELSE With(CHOOSE n \in 1..Len(line) :
              /\ \A j \in 1..n : line[j] # " "
              /\ (n = Len(line) \/ line[n + 1] = " "), LAMBDA n :
         <<SubSeq(line, 1, n)>> \o WordsOf(SubSeq(line, n + 1, Len(line))))

\* the values the line gives to the keyword key
KeyValues(line, key) ==
  { Concatenate(Tail(w)) : w \in { v \in Range(WordsOf(line)) : v[1] = key } }

\* the labels the ARG keywords of a line name
ArgumentsOfLine(line) ==
  KeyValues(line, "ARG=") \cup KeyValues(line, "ARG1=") \cup KeyValues(line, "ARG2=")

\* the lines generated in which the label is the one given
LinesLabelled(lab) ==
  { i \in 1..Len(expansion.out.lines) : LabelOf(expansion.out.lines[i]) = lab }

\* the ARG keywords of line i name argin, the weights, or an action that
\* an earlier line of the expansion created
RefersToEarlierLines(i) ==
  ArgumentsOfLine(expansion.out.lines[i]) \subseteq
    ({expansion.argin, expansion.weights}
       \cup { LabelOf(expansion.out.lines[j]) : j \in 1..(i - 1) })

\* the product with the weights labelled lab has the weights as ARG1 and the
\* action of as ARG2
WeightedProductOf(lab, of) ==
  \A i \in LinesLabelled(lab) :
    /\ KeyValues(expansion.out.lines[i], "ARG1=") = {expansion.weights}
    /\ KeyValues(expansion.out.lines[i], "ARG2=") = {of}

\* C30: every line expandFunctions generates names in its ARG keywords only
\* argin, the weights and actions created earlier in the expansion, and the
\* weighted product of each numbered MORE_THAN and LESS_THAN names the
\* weights and the output of that MORE_THAN or LESS_THAN action in two
\* separate keywords
C30_LinesReferToEarlierActions ==
  expansion.phase = "expanded" =>
    /\ \A i \in 1..Len(expansion.out.lines) : RefersToEarlierLines(i)
    /\ \A n \in 1..2 :
         /\ WeightedProductOf("s_wmt" \o Concatenate(convert(n)),
                              "s_mt" \o Concatenate(convert(n)))
         /\ WeightedProductOf("s_wlt" \o Concatenate(convert(n)),
                              "s_lt" \o Concatenate(convert(n)))

\* Without the numbered LESS_THAN and MORE_THAN keywords the lines name only
\* argin, the weights and actions created earlier
OtherKeywordsReferToEarlierActions ==
  (expansion.phase = "expanded"
     /\ expansion.keymap \cap {"LESS_THAN1", "MORE_THAN1"} = {})
    => \A i \in 1..Len(expansion.out.lines) : RefersToEarlierLines(i)

====
